---- MODULE Spec2Model ----
(***************************************************************************)
(* Model of the sec-ia scanning backend: the heuristic detector            *)
(* (backend/detectors/gemini_detector.py), the scanner adapters            *)
(* (backend/analyzers/*.py) and the request handlers, archive fetcher and  *)
(* orchestrator of backend/main.py.                                        *)
(*                                                                         *)
(* Text is a sequence of one-character strings, so that slicing, masking   *)
(* and regular-expression matching are computed character by character.    *)
(***************************************************************************)
EXTENDS Integers, Sequences, FiniteSets, TLC

VARIABLES
    \* ---- heuristic detector (gemini_detector.py) ----
    code,            \* the source text handed to the detector
    REVEAL_SECRETS,  \* value of the environment variable of that name
    dcall,           \* which detector entry point was called ("none" before)
    dres,            \* the DetectorResult it returned
    \* ---- request handling (main.py) ----
    pc,              \* position of the handler of the request
    req,             \* the request: endpoint, url, body and query scanners, language
    host,            \* the platform and FORCE_SEMGREP
    io,              \* network requests, scanner invocations and spawned processes so far
    branch,          \* branch of the repository to download
    archive,         \* content of the temporary archive once it is complete
    total,           \* download_repo_zip: bytes received
    written,         \* download_repo_zip: bytes written to the temporary archive
    fs,              \* temporary files and directories that exist
    repo_path,       \* path download_repo_zip returned
    sel,             \* run_all_scans_on_path: the resolved selection
    pos,             \* index in the scan order of the next block
    scans,           \* the result dict: scanner name -> result
    timings,         \* scanner names with an entry in timings
    resp,            \* the response, [kind |-> "none"] while the handler runs
    \* ---- one adapter called on its own ----
    acall,           \* the adapter, what its tool does, and what the call returned
    \* ---- severity aggregation called on its own ----
    mcall,           \* the function, its argument, and what the call returned
    \* ---- the in-memory rate limiter (main.py 161-211) ----
    _RATE_STATE,     \* api key -> the timestamps of its admitted requests, oldest first
    now,             \* time.time()
    rate_log         \* history: the calls of _ensure_rate, [key, at, ok]

dvars == <<code, REVEAL_SECRETS, dcall, dres>>
rvars == <<pc, req, host, io, branch, total, written, archive, fs, repo_path, sel, pos,
           scans, timings, resp>>
lvars == <<_RATE_STATE, now, rate_log>>
avars == <<acall, mcall, lvars>>
vars == <<dvars, rvars, avars>>

\* the limiter before any request
LimiterIdle ==
    /\ _RATE_STATE = [k \in {} |-> <<>>]
    /\ now = 0
    /\ rate_log = <<>>

(***************************************************************************)
(* Bounds                                                                  *)
(***************************************************************************)
\* number of text pieces concatenated into one detector input
MaxPieces == 3

(***************************************************************************)
(* Characters and character classes                                        *)
(***************************************************************************)
UpperCase == {"A","B","C","D","E","F","G","H","I","J","K","L","M",
          "N","O","P","Q","R","S","T","U","V","W","X","Y","Z"}
LowerCase == {"a","b","c","d","e","f","g","h","i","j","k","l","m",
          "n","o","p","q","r","s","t","u","v","w","x","y","z"}
Digit == {"0","1","2","3","4","5","6","7","8","9"}
Space == {" ", "\t", "\n", "\r", "\f"}
WordChar == UpperCase \cup LowerCase \cup Digit \cup {"_"}

\* absent key of a Python dict / value None
None == "<None>"

(***************************************************************************)
(* Regular expressions of _SECRET_PATTERNS.  A pattern is a sequence of    *)
(* elements "character class repeated lo..hi times" (hi = 0: no upper      *)
(* limit), every quantifier greedy, optionally closed by \b.               *)
(***************************************************************************)
One(c) == [cls |-> c, lo |-> 1, hi |-> 1]
Opt(c) == [cls |-> c, lo |-> 0, hi |-> 1]
Star(c) == [cls |-> c, lo |-> 0, hi |-> 0]
Rep(c, lo, hi) == [cls |-> c, lo |-> lo, hi |-> hi]

\* a literal string: one element per character
Lit(s) == [i \in 1..Len(s) |-> One({s[i]})]
\* a literal string under (?i): either letter case of each character
LitI(lo, up) == [i \in 1..Len(lo) |-> One({lo[i], up[i]})]

_SECRET_PATTERNS ==
    << \* AKIA[0-9A-Z]{16}
       [id |-> "aws", wb |-> FALSE,
        elems |-> Lit(<<"A","K","I","A">>)
                  \o <<Rep(Digit \cup UpperCase, 16, 16)>>],
       \* (?i)api[_-]?key\s*[=:]\s*['"]?[0-9A-Za-z\-_.]{16,}\b
       [id |-> "api_key", wb |-> TRUE,
        elems |-> LitI(<<"a","p","i">>, <<"A","P","I">>)
                  \o <<Opt({"_","-"})>>
                  \o LitI(<<"k","e","y">>, <<"K","E","Y">>)
                  \o <<Star(Space), One({"=",":"}), Star(Space),
                       Opt({"'", "\""}),
                       Rep(Digit \cup UpperCase \cup LowerCase \cup {"-","_","."}, 16, 0)>>],
       \* AIza[0-9A-Za-z\-_]{35}
       [id |-> "google", wb |-> FALSE,
        elems |-> Lit(<<"A","I","z","a">>)
                  \o <<Rep(Digit \cup UpperCase \cup LowerCase \cup {"-","_"}, 35, 35)>>],
       \* sk_live_[0-9a-zA-Z]{24,}
       [id |-> "stripe", wb |-> FALSE,
        elems |-> Lit(<<"s","k","_","l","i","v","e","_">>)
                  \o <<Rep(Digit \cup LowerCase \cup UpperCase, 24, 0)>>],
       \* SG\.[A-Za-z0-9\-_.]{20,}
       [id |-> "sendgrid", wb |-> FALSE,
        elems |-> Lit(<<"S","G",".">>)
                  \o <<Rep(UpperCase \cup LowerCase \cup Digit \cup {"-","_","."}, 20, 0)>>],
       \* xox[baprs]-[0-9a-zA-Z-]{10,}
       [id |-> "slack", wb |-> FALSE,
        elems |-> Lit(<<"x","o","x">>)
                  \o <<One({"b","a","p","r","s"}), One({"-"}),
                       Rep(Digit \cup LowerCase \cup UpperCase \cup {"-"}, 10, 0)>>] >>

\* number of consecutive characters of text, from position i on, that are in cls
RECURSIVE RunLen(_, _, _)
RunLen(text, i, cls) ==
    IF i > Len(text) \/ text[i] \notin cls THEN 0
    ELSE 1 + RunLen(text, i + 1, cls)

IsWord(text, p) == p >= 1 /\ p <= Len(text) /\ text[p] \in WordChar

\* \b between the characters at positions p-1 and p
Boundary(text, p) == IsWord(text, p - 1) # IsWord(text, p)

Maximum(S) == CHOOSE m \in S : \A n \in S : n <= m

(***************************************************************************)
(* re match of elements k.. of a pattern at position i: the position after *)
(* the match, or 0 when there is none.  Each element takes as many         *)
(* characters as it can; no element of _SECRET_PATTERNS can give back      *)
(* characters to the one after it (adjacent classes are disjoint), except  *)
(* the last one before \b, which backs off to the longest boundary.        *)
(***************************************************************************)
RECURSIVE MatchFrom(_, _, _, _)
MatchFrom(text, i, pat, k) ==
    IF k > Len(pat.elems) THEN i
    ELSE LET e == pat.elems[k]
             r == RunLen(text, i, e.cls)
             n == IF e.hi > 0 /\ r > e.hi THEN e.hi ELSE r
         IN  IF n < e.lo THEN 0
             ELSE IF k = Len(pat.elems) /\ pat.wb
                  THEN LET ok == {m \in e.lo..n : Boundary(text, i + m)}
                       IN  IF ok = {} THEN 0 ELSE i + Maximum(ok)
                  ELSE MatchFrom(text, i + n, pat, k + 1)

\* pat.finditer(code): the non-overlapping matches, left to right
RECURSIVE finditer(_, _, _)
finditer(pat, text, i) ==
    IF i > Len(text) THEN <<>>
    ELSE LET e == MatchFrom(text, i, pat, 1)
         IN  IF e = 0 THEN finditer(pat, text, i + 1)
             ELSE <<SubSeq(text, i, e - 1)>> \o finditer(pat, text, e)

(***************************************************************************)
(* _scan_code_for_regex                                                    *)
(***************************************************************************)
Stars(n) == [i \in 1..n |-> "*"]

\* _mask taking any value of REVEAL_SECRETS but "0" as a request to reveal
_mask_truthy(s, reveal) ==
    IF reveal # "0" THEN s
    ELSE IF Len(s) <= 8 THEN Stars(Len(s))
    ELSE SubSeq(s, 1, 4) \o <<".", ".", ".">> \o SubSeq(s, Len(s) - 3, Len(s))

_mask(s, reveal) ==
    IF reveal = "1" THEN s
    ELSE IF Len(s) <= 8 THEN Stars(Len(s))
    ELSE SubSeq(s, 1, 4) \o <<".", ".", ".">> \o SubSeq(s, Len(s) - 3, Len(s))

SecretIssue(pat, raw, reveal) ==
    [type |-> "secret", pattern |-> pat.id,
     match_masked |-> _mask(raw, reveal), match_length |-> Len(raw)]

RECURSIVE ScanPatterns(_, _, _)
ScanPatterns(text, reveal, k) ==
    IF k > Len(_SECRET_PATTERNS) THEN <<>>
    ELSE LET pat == _SECRET_PATTERNS[k]
             ms == finditer(pat, text, 1)
         IN  [j \in 1..Len(ms) |-> SecretIssue(pat, ms[j], reveal)]
             \o ScanPatterns(text, reveal, k + 1)

_scan_code_for_regex(text, reveal) == ScanPatterns(text, reveal, 1)

\* the raw matches, in the order _scan_code_for_regex reports them
RECURSIVE RawMatchesFrom(_, _)
RawMatchesFrom(text, k) ==
    IF k > Len(_SECRET_PATTERNS) THEN <<>>
    ELSE finditer(_SECRET_PATTERNS[k], text, 1) \o RawMatchesFrom(text, k + 1)

RawMatches(text) == RawMatchesFrom(text, 1)

(***************************************************************************)
(* ast.parse on the detector inputs of this model.  The inputs are built   *)
(* from identifiers, "-", ".", newlines, "#" comments and "(" (see Pieces),*)
(* or are lines of the forms "import m" and "a.b.f('ls')" (see Lines):     *)
(* such a text is a Python module unless a parenthesis outside a comment   *)
(* has no partner.                                                         *)
(***************************************************************************)
RECURSIVE Unbalanced(_, _, _, _)
Unbalanced(text, i, inComment, depth) ==
    IF i > Len(text) THEN depth # 0
    ELSE IF text[i] = "\n" THEN Unbalanced(text, i + 1, FALSE, depth)
    ELSE IF inComment THEN Unbalanced(text, i + 1, TRUE, depth)
    ELSE IF text[i] = "#" THEN Unbalanced(text, i + 1, TRUE, depth)
    ELSE IF text[i] = "(" THEN Unbalanced(text, i + 1, FALSE, depth + 1)
    ELSE IF text[i] = ")"
         THEN depth = 0 \/ Unbalanced(text, i + 1, FALSE, depth - 1)
    ELSE Unbalanced(text, i + 1, FALSE, depth)

ast_parse_ok(text) == ~Unbalanced(text, 1, FALSE, 0)

\* first index of the character ch in text, 0 when it has none
IndexOf(text, ch) ==
    IF \E i \in 1..Len(text) : text[i] = ch
    THEN CHOOSE i \in 1..Len(text) : text[i] = ch /\ \A j \in 1..(i - 1) : text[j] # ch
    ELSE 0

\* text.split(ch)
RECURSIVE SplitAt(_, _)
SplitAt(text, ch) ==
    LET i == IndexOf(text, ch)
    IN  IF i = 0 THEN <<text>>
        ELSE <<SubSeq(text, 1, i - 1)>> \o SplitAt(SubSeq(text, i + 1, Len(text)), ch)

\* the func of a Call node as the visitor reads it: the class of the node,
\* func.id, func.attr, getattr(func.value, "id", None) and
\* getattr(func.value, "attr", None); <<>> stands for an absent name
NameNode(id) ==
    [node |-> "Name", id |-> id, attr |-> <<>>, value_id |-> <<>>, value_attr |-> <<>>]
AttributeNode(names) ==
    [node |-> "Attribute", id |-> <<>>, attr |-> names[Len(names)],
     value_id |-> IF Len(names) = 2 THEN names[1] ELSE <<>>,
     value_attr |-> IF Len(names) > 2 THEN names[Len(names) - 1] ELSE <<>>]

\* the Call node of the expression "a.b.f(...)": its func and the Call nodes
\* among its arguments
RECURSIVE ParseCall(_)
ParseCall(expr) ==
    LET open == IndexOf(expr, "(")
        names == SplitAt(SubSeq(expr, 1, open - 1), ".")
        inner == SubSeq(expr, open + 1, Len(expr) - 1)
    IN  [func |-> IF Len(names) = 1 THEN NameNode(names[1]) ELSE AttributeNode(names),
         args |-> IF IndexOf(inner, "(") = 0 THEN <<>> ELSE <<ParseCall(inner)>>]

\* ast.parse(text).body for a text that parses: the Call node of each line
\* that is a call, with its line number
ast_parse(text) ==
    LET lines == SplitAt(text, "\n")
        calls == {i \in 1..Len(lines) : IndexOf(lines[i], "(") # 0
                                          /\ IndexOf(lines[i], "#") = 0}
    IN  [i \in calls |-> ParseCall(lines[i])]

\* the characters of the names the visitor looks for
Chars(name) ==
    CASE name = "exec" -> <<"e", "x", "e", "c">>
      [] name = "eval" -> <<"e", "v", "a", "l">>
      [] name = "compile" -> <<"c", "o", "m", "p", "i", "l", "e">>
      [] name = "system" -> <<"s", "y", "s", "t", "e", "m">>
      [] name = "Popen" -> <<"P", "o", "p", "e", "n">>
      [] name = "run" -> <<"r", "u", "n">>
      [] name = "call" -> <<"c", "a", "l", "l">>
      [] name = "requests" -> <<"r", "e", "q", "u", "e", "s", "t", "s">>
      [] name = "httpx" -> <<"h", "t", "t", "p", "x">>

\* _CallVisitor.visit_Call on a node of line lineno: its issues, then those
\* of the Call nodes below it (generic_visit)
RECURSIVE visit_Call(_, _)
visit_Call(node, lineno) ==
    LET func == node.func
        below == [i \in 1..Len(node.args) |-> visit_Call(node.args[i], lineno)]
    IN  (IF func.node = "Name" /\ func.id \in {Chars("exec"), Chars("eval"), Chars("compile")}
         THEN <<[type |-> "dynamic_exec", name |-> func.id, lineno |-> lineno]>>
         ELSE <<>>)
        \o (IF func.node = "Attribute" /\ func.attr \in {Chars("Popen"), Chars("run"), Chars("call")}
            THEN <<[type |-> "subprocess_call", attr |-> func.attr, lineno |-> lineno]>>
            ELSE <<>>)
        \o (IF func.node = "Name" /\ func.id \in {Chars("system")}
            THEN <<[type |-> "os_system", name |-> func.id, lineno |-> lineno]>>
            ELSE <<>>)
        \o (IF func.node = "Attribute"
               /\ (func.value_id \in {Chars("requests"), Chars("httpx")}
                   \/ func.value_attr \in {Chars("requests")})
            THEN <<[type |-> "http_client", call |-> func.attr, lineno |-> lineno]>>
            ELSE <<>>)
        \o (IF below = <<>> THEN <<>> ELSE below[1])

\* _CallVisitor().visit(tree): the issues of the Call nodes, line after line
RECURSIVE VisitLines(_, _)
VisitLines(body, i) ==
    IF \A j \in DOMAIN body : j < i THEN <<>>
    ELSE (IF i \in DOMAIN body THEN visit_Call(body[i], i) ELSE <<>>)
         \o VisitLines(body, i + 1)

visitor_issues(text) == VisitLines(ast_parse(text), 1)

(***************************************************************************)
(* detect_code_string, detect_path                                         *)
(***************************************************************************)
detect_code_string(text, reveal) ==
    IF ~ast_parse_ok(text)
    THEN [success |-> FALSE, error |-> "AST parse error", issues |-> <<>>]
    ELSE [success |-> TRUE, error |-> None,
          issues |-> visitor_issues(text) \o _scan_code_for_regex(text, reveal)]

\* detect_path on a regular file; readable = read_text(encoding="utf-8") succeeds
detect_path(text, readable, reveal) ==
    IF ~readable
    THEN [success |-> FALSE, error |-> "Could not read file", issues |-> <<>>]
    ELSE [success |-> TRUE, error |-> None,
          issues |-> detect_code_string(text, reveal).issues]

(***************************************************************************)
(* Detector inputs                                                         *)
(***************************************************************************)
Pieces ==
    { <<"A","K","I","A">>,
      <<"A","B","C","D","E","F","G","H","I","J","K","L","M","N","O","P">>,
      <<"\n">>,
      <<"(">>,
      <<"#","a","p","i","_","k","e","y","=">>,
      <<"x","o","x","b","-","A">>,
      <<"s","k","_","l","i","v","e","_">>,
      <<"S","G",".","A">> }

RECURSIVE Flatten(_)
Flatten(ps) == IF ps = <<>> THEN <<>> ELSE Head(ps) \o Flatten(Tail(ps))

Texts == { Flatten(ps) : ps \in UNION { [1..n -> Pieces] : n \in 0..MaxPieces } }

RevealValues == {"0", "1", "true"}

NoResult == [success |-> FALSE, error |-> "<no call>", issues |-> <<>>]

DInit ==
    /\ code \in Texts
    /\ REVEAL_SECRETS \in RevealValues
    /\ dcall = "none"
    /\ dres = NoResult
    /\ pc = "unused"
    /\ req = [endpoint |-> "none"]
    /\ host = [win |-> FALSE, force |-> FALSE]
    /\ io = <<>>
    /\ branch = None
    /\ total = 0
    /\ written = 0
    /\ archive = [ok |-> FALSE, infolist |-> <<>>]
    /\ fs = {}
    /\ repo_path = <<>>
    /\ sel = {}
    /\ pos = 1
    /\ scans = <<>>
    /\ timings = {}
    /\ resp = [kind |-> "none", status |-> 0, detail |-> ""]
    /\ acall = [tool |-> "none"]
    /\ mcall = [fn |-> "none"]
    /\ LimiterIdle

CallScanRegex ==
    /\ dcall = "none"
    /\ dcall' = "_scan_code_for_regex"
    /\ dres' = [success |-> TRUE, error |-> None,
                issues |-> _scan_code_for_regex(code, REVEAL_SECRETS)]
    /\ UNCHANGED <<code, REVEAL_SECRETS, rvars, avars>>

CallDetectCodeString ==
    /\ dcall = "none"
    /\ dcall' = "detect_code_string"
    /\ dres' = detect_code_string(code, REVEAL_SECRETS)
    /\ UNCHANGED <<code, REVEAL_SECRETS, rvars, avars>>

CallDetectPath ==
    /\ dcall = "none"
    /\ \E readable \in BOOLEAN :
          /\ dcall' = IF readable THEN "detect_path" ELSE "detect_path_unreadable"
          /\ dres' = detect_path(code, readable, REVEAL_SECRETS)
    /\ UNCHANGED <<code, REVEAL_SECRETS, rvars, avars>>

DNext == CallScanRegex \/ CallDetectCodeString \/ CallDetectPath

SpecDetector == DInit /\ [][DNext]_vars

(***************************************************************************)
(* The detector on modules of import and call statements                   *)
(***************************************************************************)
\* number of lines of such a module
MaxLines == 2

Lines ==
    { <<"i", "m", "p", "o", "r", "t", " ", "o", "s">>,
      <<"o", "s", ".", "s", "y", "s", "t", "e", "m", "(", "'", "l", "s", "'", ")">>,
      <<"s", "y", "s", "t", "e", "m", "(", "'", "l", "s", "'", ")">>,
      <<"e", "v", "a", "l", "(", "'", "l", "s", "'", ")">>,
      <<"s", "u", "b", "p", "r", "o", "c", "e", "s", "s", ".", "r", "u", "n", "(", "'", "l", "s", "'", ")">>,
      <<"s", "u", "b", "p", "r", "o", "c", "e", "s", "s", ".", "P", "o", "p", "e", "n", "(", "'", "l", "s", "'", ")">>,
      <<"r", "e", "q", "u", "e", "s", "t", "s", ".", "g", "e", "t", "(", "'", "l", "s", "'", ")">>,
      <<"x", ".", "r", "e", "q", "u", "e", "s", "t", "s", ".", "p", "o", "s", "t", "(", "'", "l", "s", "'", ")">>,
      <<"p", "r", "i", "n", "t", "(", "e", "x", "e", "c", "(", "'", "l", "s", "'", ")", ")">>,
      <<"p", "r", "i", "n", "t", "(", "'", "l", "s", "'", ")">> }

RECURSIVE JoinLines(_)
JoinLines(ls) ==
    IF Len(ls) = 1 THEN ls[1] ELSE ls[1] \o <<"\n">> \o JoinLines(Tail(ls))

Modules == { JoinLines(ls) : ls \in UNION { [1..n -> Lines] : n \in 1..MaxLines } }

VInit ==
    /\ code \in Modules
    /\ REVEAL_SECRETS \in RevealValues
    /\ dcall = "none"
    /\ dres = NoResult
    /\ pc = "unused"
    /\ req = [endpoint |-> "none"]
    /\ host = [win |-> FALSE, force |-> FALSE]
    /\ io = <<>>
    /\ branch = None
    /\ total = 0
    /\ written = 0
    /\ archive = [ok |-> FALSE, infolist |-> <<>>]
    /\ fs = {}
    /\ repo_path = <<>>
    /\ sel = {}
    /\ pos = 1
    /\ scans = <<>>
    /\ timings = {}
    /\ resp = [kind |-> "none", status |-> 0, detail |-> ""]
    /\ acall = [tool |-> "none"]
    /\ mcall = [fn |-> "none"]
    /\ LimiterIdle

SpecVisitor == VInit /\ [][DNext]_vars

(***************************************************************************)
(* JSON documents and the Python operations the adapters apply to them.    *)
(* A document is [t, v]: t the Python type json.loads returns ("dict",     *)
(* "list", "str", "int", "NoneType"), v its content (a function from keys  *)
(* for a dict, a sequence for a list).  The outcome of a Python expression *)
(* is [exc, val]: exc the name of the exception raised, "" when none.      *)
(***************************************************************************)
JDict(f) == [t |-> "dict", v |-> f]
JList(q) == [t |-> "list", v |-> q]
JStr(x) == [t |-> "str", v |-> x]
JInt(n) == [t |-> "int", v |-> n]
JNull == [t |-> "NoneType", v |-> None]
EmptyDict == JDict(<<>>)

Ok(x) == [exc |-> "", val |-> x]
Raise(e) == [exc |-> e, val |-> None]

\* d.get(key, default): AttributeError unless d is a dict
PyGet(d, key, default) ==
    IF d.t # "dict" THEN Raise("AttributeError")
    ELSE IF key \in DOMAIN d.v THEN Ok(d.v[key]) ELSE Ok(default)

\* d.get(key, {}).get(sub)
PyGet2(d, key, sub) ==
    LET a == PyGet(d, key, EmptyDict)
    IN  IF a.exc # "" THEN a ELSE PyGet(a.val, sub, JNull)

\* the items "for x in d" yields: TypeError when d is not iterable;
\* a dict yields its keys and a str its characters, all of type str
PyIter(d) ==
    IF d.t = "list" THEN Ok(d.v)
    ELSE IF d.t = "dict"
         THEN Ok([i \in 1..Cardinality(DOMAIN d.v) |-> JStr("key")])
    ELSE IF d.t = "str"
         THEN Ok(IF d.v = "" THEN <<>> ELSE <<JStr("c")>>)
    ELSE Raise("TypeError")

\* first exception among the outcomes of a sequence of expressions
RECURSIVE FirstExc(_)
FirstExc(outs) ==
    IF outs = <<>> THEN ""
    ELSE IF Head(outs).exc # "" THEN Head(outs).exc
    ELSE FirstExc(Tail(outs))

(***************************************************************************)
(* What an external tool does when it is run: the environment's part.      *)
(*   onpath : shutil.which finds the executable                            *)
(*   kind   : "exit" (ran to completion), "timeout" (TimeoutExpired),      *)
(*            "fnf" (FileNotFoundError from the spawn)                     *)
(*   rc, stdout, stderr : of a run that completed                          *)
(* stdout is [kind, doc]: "empty", "garbage" (not JSON) or "json" with the *)
(* document json.loads returns.                                            *)
(***************************************************************************)
OutEmpty == [kind |-> "empty", doc |-> JNull]
OutGarbage == [kind |-> "garbage", doc |-> JNull]
OutJson(d) == [kind |-> "json", doc |-> d]

\* json.loads(output or dflt)
json_loads(out, dflt) ==
    IF out.kind = "garbage" THEN Raise("JSONDecodeError")
    ELSE IF out.kind = "empty" THEN Ok(dflt)
    ELSE Ok(out.doc)

\* diagnostics: the words a message contains, for the substring tests
Mentions(msg, word) ==
    \/ msg = "Commande introuvable" /\ word = "commande introuvable"
    \/ msg = "bash: semgrep: not found" /\ word = "not found"
    \/ msg = "UnicodeEncodeError: 'charmap' codec can't encode"
          /\ word \in {"charmap", "codec", "unicodeencodeerror"}

Stderrs == {"", " \n", "boom", "UnicodeEncodeError: 'charmap' codec can't encode"}

\* str.strip() and str.lower() on the strings of this model
Strip(x) ==
    IF x \in {" \n", " "} THEN ""
    ELSE IF x = " Bandit" THEN "Bandit"
    ELSE IF x = " 1.2.3" THEN "1.2.3"
    ELSE x

Lower(x) ==
    IF x = "Bandit" THEN "bandit"
    ELSE IF x = " Bandit" THEN " bandit"
    ELSE IF x = "Python" THEN "python"
    ELSE x

(***************************************************************************)
(* _run_cmd (multi_analyzer.py): (success, output)                         *)
(***************************************************************************)
\* DEFAULT_TIMEOUT, seconds (SCANNER_TIMEOUT_SECONDS unset)
DEFAULT_TIMEOUT == 120

\* What _run_cmd returns and leaves behind.  output is the fixed text of the
\* diagnostic (or the stdout of the run); names and secs are the command and
\* the duration the diagnostic is formatted with ("" and 0 when it has
\* none); proc is the spawned process when the call returns: "none" (nothing
\* was spawned), "exited", or "killed" (subprocess.run kills and reaps the
\* child when the timeout expires).
Ran_cmd(success, output, names, secs, proc) ==
    [success |-> success, output |-> output, names |-> names, secs |-> secs, proc |-> proc]

\* _run_cmd returning the diagnostics of the process as they are
_run_cmd_bare_stderr(cmd, timeout, p) ==
    IF cmd = <<>> THEN Ran_cmd(FALSE, "Commande vide", "", 0, "none")
    ELSE IF ~p.onpath THEN Ran_cmd(FALSE, "Commande introuvable", cmd[1], 0, "none")
    ELSE IF p.kind = "fnf" THEN Ran_cmd(FALSE, "Commande introuvable", cmd[1], 0, "none")
    ELSE IF p.kind = "timeout"
         THEN Ran_cmd(FALSE, "Execution timeout", cmd[1], timeout, "killed")
    ELSE IF p.rc \notin {0, 1} THEN Ran_cmd(FALSE, Strip(p.stderr), "", 0, "exited")
    ELSE Ran_cmd(TRUE, p.stdout, "", 0, "exited")

\* _run_cmd accepting every exit code
_run_cmd_any_rc(cmd, timeout, p) ==
    IF cmd = <<>> THEN Ran_cmd(FALSE, "Commande vide", "", 0, "none")
    ELSE IF ~p.onpath THEN Ran_cmd(FALSE, "Commande introuvable", cmd[1], 0, "none")
    ELSE IF p.kind = "fnf" THEN Ran_cmd(FALSE, "Commande introuvable", cmd[1], 0, "none")
    ELSE IF p.kind = "timeout"
         THEN Ran_cmd(FALSE, "Execution timeout", cmd[1], timeout, "killed")
    ELSE Ran_cmd(TRUE, p.stdout, "", 0, "exited")

\* _run_cmd that leaves the process running when its time is up
_run_cmd_leaves_child(cmd, timeout, p) ==
    IF cmd = <<>> THEN Ran_cmd(FALSE, "Commande vide", "", 0, "none")
    ELSE IF ~p.onpath THEN Ran_cmd(FALSE, "Commande introuvable", cmd[1], 0, "none")
    ELSE IF p.kind = "fnf" THEN Ran_cmd(FALSE, "Commande introuvable", cmd[1], 0, "none")
    ELSE IF p.kind = "timeout"
         THEN Ran_cmd(FALSE, "Execution timeout", cmd[1], timeout, "running")
    ELSE IF p.rc \notin {0, 1}
         THEN Ran_cmd(FALSE, IF Strip(p.stderr) # "" THEN Strip(p.stderr)
                             ELSE "Execution echouee", "", 0, "exited")
    ELSE Ran_cmd(TRUE, p.stdout, "", 0, "exited")

\* _run_cmd that spawns without looking for the executable first
_run_cmd_no_which(cmd, timeout, p) ==
    IF cmd = <<>> THEN Ran_cmd(FALSE, "Commande vide", "", 0, "none")
    ELSE IF p.kind = "fnf" \/ ~p.onpath
         THEN Ran_cmd(FALSE, "Execution echouee", "", 0, "none")
    ELSE IF p.kind = "timeout"
         THEN Ran_cmd(FALSE, "Execution timeout", cmd[1], timeout, "killed")
    ELSE IF p.rc \notin {0, 1}
         THEN Ran_cmd(FALSE, IF Strip(p.stderr) # "" THEN Strip(p.stderr)
                             ELSE "Execution echouee", "", 0, "exited")
    ELSE Ran_cmd(TRUE, p.stdout, "", 0, "exited")

\* cmd: the command line; timeout: seconds; p: what the process does
_run_cmd(cmd, timeout, p) ==
    IF cmd = <<>> THEN Ran_cmd(FALSE, "Commande vide", "", 0, "none")
    ELSE IF ~p.onpath THEN Ran_cmd(FALSE, "Commande introuvable", cmd[1], 0, "none")
    ELSE IF p.kind = "fnf" THEN Ran_cmd(FALSE, "Commande introuvable", cmd[1], 0, "none")
    ELSE IF p.kind = "timeout"
         THEN Ran_cmd(FALSE, "Execution timeout", cmd[1], timeout, "killed")
    ELSE IF p.rc \notin {0, 1}
         THEN Ran_cmd(FALSE, IF Strip(p.stderr) # "" THEN Strip(p.stderr)
                             ELSE "Execution echouee", "", 0, "exited")
    ELSE Ran_cmd(TRUE, p.stdout, "", 0, "exited")

\* the command lines of the adapters (the target being "target")
SemgrepCmd == <<"semgrep", "--json", "--config", "auto", "target">>
SemgrepModuleCmd == <<"python", "-m", "semgrep", "--json", "--config", "auto", "target">>
SnykCmd == <<"snyk", "code", "test", "--json">>
EslintCmd == <<"eslint", "-f", "json", "target">>

\* a result dict of an adapter of multi_analyzer.py
Failure(err) == [success |-> FALSE, error |-> err, issues |-> <<>>, raw |-> JNull]
Success(iss, data) == [success |-> TRUE, error |-> None, issues |-> iss, raw |-> data]

\* the outcome of an adapter call: the result dict it returns, or the
\* exception that leaves it
Returned(r) == [exc |-> "", res |-> r]
Raised(e) == [exc |-> e, res |-> Failure("<raised>")]

(***************************************************************************)
(* run_semgrep                                                             *)
(***************************************************************************)
SemgrepDisabledMsg == "Semgrep desactive par defaut sur Windows"
SemgrepEncodingMsg == "Semgrep a echoue a cause d'un probleme d'encodage"

\* h (the host): [win |-> the platform is Windows, force |-> FORCE_SEMGREP = "1"]
SemgrepSuppressed(h) == h.win /\ ~h.force

needs_fallback(err) ==
    \/ Mentions(err, "commande introuvable") \/ Mentions(err, "not found")
    \/ Mentions(err, "charmap") \/ Mentions(err, "codec")
    \/ Mentions(err, "encoding")

SemgrepIssue(result) ==
    LET path == PyGet(result, "path", JNull)
        start == PyGet2(result, "start", "line")
        end == PyGet2(result, "end", "line")
        check_id == PyGet(result, "check_id", JNull)
        severity == PyGet2(result, "extra", "severity")
        message == PyGet2(result, "extra", "message")
        e == FirstExc(<<path, start, end, check_id, severity, message>>)
    IN  IF e # "" THEN Raise(e)
        ELSE Ok([path |-> path.val, start |-> start.val, end |-> end.val,
                 check_id |-> check_id.val, severity |-> severity.val,
                 message |-> message.val])

\* lines 167-183: parse the output of the invocation that succeeded
SemgrepParse(output) ==
    LET data == json_loads(output, EmptyDict)
    IN  IF data.exc # "" THEN Returned(Failure("Semgrep JSON invalide"))
        ELSE LET results == PyGet(data.val, "results", JList(<<>>))
             IN  IF results.exc # "" THEN Raised(results.exc)
                 ELSE LET items == PyIter(results.val)
                      IN  IF items.exc # "" THEN Raised(items.exc)
                          ELSE LET iss == [i \in 1..Len(items.val) |->
                                              SemgrepIssue(items.val[i])]
                               IN  IF FirstExc(iss) # "" THEN Raised(FirstExc(iss))
                                   ELSE Returned(Success(
                                          [i \in 1..Len(iss) |-> iss[i].val],
                                          data.val))

\* an outcome with the commands _run_cmd was called with to reach it
WithCmds(out, cmds) == [exc |-> out.exc, res |-> out.res, cmds |-> cmds]

\* run_semgrep that returns the error of the direct invocation at once
run_semgrep_no_fallback(h, p1, p2) ==
    IF SemgrepSuppressed(h) THEN WithCmds(Returned(Failure(SemgrepDisabledMsg)), <<>>)
    ELSE LET r1 == _run_cmd(SemgrepCmd, DEFAULT_TIMEOUT, p1)
         IN  IF r1.success THEN WithCmds(SemgrepParse(r1.output), <<"semgrep">>)
             ELSE WithCmds(Returned(Failure(r1.output)), <<"semgrep">>)

\* p1: the run of `semgrep`, p2: the run of `<python> -m semgrep`
run_semgrep(h, p1, p2) ==
    IF SemgrepSuppressed(h) THEN WithCmds(Returned(Failure(SemgrepDisabledMsg)), <<>>)
    ELSE LET r1 == _run_cmd(SemgrepCmd, DEFAULT_TIMEOUT, p1)
             both == <<"semgrep", "python -m semgrep">>
         IN  IF r1.success THEN WithCmds(SemgrepParse(r1.output), <<"semgrep">>)
             ELSE IF ~needs_fallback(r1.output)
             THEN WithCmds(Returned(Failure(r1.output)), <<"semgrep">>)
             ELSE LET r2 == _run_cmd(SemgrepModuleCmd, DEFAULT_TIMEOUT, p2)
                  IN  IF r2.success THEN WithCmds(SemgrepParse(r2.output), both)
                      ELSE IF \/ Mentions(r2.output, "charmap")
                              \/ Mentions(r2.output, "codec")
                              \/ Mentions(r2.output, "unicodeencodeerror")
                           THEN WithCmds(Returned(Failure(SemgrepEncodingMsg)), both)
                           ELSE WithCmds(Returned(Failure(r2.output)), both)

\* whether run_semgrep runs the module-runner invocation after p1
SemgrepFallsBack(h, p1) ==
    /\ ~SemgrepSuppressed(h)
    /\ ~_run_cmd(SemgrepCmd, DEFAULT_TIMEOUT, p1).success
    /\ needs_fallback(_run_cmd(SemgrepCmd, DEFAULT_TIMEOUT, p1).output)

(***************************************************************************)
(* run_snyk_code, run_eslint, run_codeql                                   *)
(***************************************************************************)
run_snyk_code(p) ==
    LET r == _run_cmd(SnykCmd, DEFAULT_TIMEOUT, p)
    IN  IF ~r.success THEN Returned(Failure(r.output))
        ELSE LET data == json_loads(r.output, EmptyDict)
             IN  IF data.exc # "" THEN Returned(Failure("Snyk JSON invalide"))
                 ELSE LET issues == PyGet(data.val, "issues", JList(<<>>))
                      IN  IF issues.exc # "" THEN Raised(issues.exc)
                          ELSE Returned(Success(issues.val, data.val))

EslintIssue(file_entry, msg) ==
    LET file == PyGet(file_entry, "filePath", JNull)
        line == PyGet(msg, "line", JNull)
        ruleId == PyGet(msg, "ruleId", JNull)
        severity == PyGet(msg, "severity", JNull)
        message == PyGet(msg, "message", JNull)
        e == FirstExc(<<file, line, ruleId, severity, message>>)
    IN  IF e # "" THEN Raise(e)
        ELSE Ok([file |-> file.val, line |-> line.val, ruleId |-> ruleId.val,
                 severity |-> severity.val, message |-> message.val])

\* the issues of one file entry: file_entry.get("messages", []) iterated
EslintFile(file_entry) ==
    LET messages == PyGet(file_entry, "messages", JList(<<>>))
    IN  IF messages.exc # "" THEN Raise(messages.exc)
        ELSE LET items == PyIter(messages.val)
             IN  IF items.exc # "" THEN Raise(items.exc)
                 ELSE LET iss == [i \in 1..Len(items.val) |->
                                     EslintIssue(file_entry, items.val[i])]
                      IN  IF FirstExc(iss) # "" THEN Raise(FirstExc(iss))
                          ELSE Ok([i \in 1..Len(iss) |-> iss[i].val])

RECURSIVE ConcatVals(_)
ConcatVals(outs) ==
    IF outs = <<>> THEN <<>> ELSE Head(outs).val \o ConcatVals(Tail(outs))

run_eslint(p) ==
    LET r == _run_cmd(EslintCmd, DEFAULT_TIMEOUT, p)
    IN  IF ~r.success THEN Returned(Failure(r.output))
        ELSE LET data == json_loads(r.output, JList(<<>>))
             IN  IF data.exc # "" THEN Returned(Failure("ESLint JSON invalide"))
                 ELSE LET files == PyIter(data.val)
                      IN  IF files.exc # "" THEN Raised(files.exc)
                          ELSE LET per == [i \in 1..Len(files.val) |->
                                              EslintFile(files.val[i])]
                               IN  IF FirstExc(per) # "" THEN Raised(FirstExc(per))
                                   ELSE Returned(Success(ConcatVals(per), data.val))

run_codeql == Returned(Failure("CodeQL non configure dans cet environnement"))

(***************************************************************************)
(* analyze_python_path_with_bandit (bandit_analyzer.py)                    *)
(***************************************************************************)
BanditFailure(err) ==
    [success |-> FALSE, issues |-> <<>>, metrics |-> EmptyDict, error |-> err]

BanditIssue(issue) ==
    LET line == PyGet(issue, "line_number", JNull)
        severity == PyGet(issue, "issue_severity", JNull)
        confidence == PyGet(issue, "issue_confidence", JNull)
        test_id == PyGet(issue, "test_id", JNull)
        test_name == PyGet(issue, "test_name", JNull)
        text == PyGet(issue, "issue_text", JNull)
        filename == PyGet(issue, "filename", JNull)
        e == FirstExc(<<line, severity, confidence, test_id, test_name,
                        text, filename>>)
    IN  IF e # "" THEN Raise(e)
        ELSE Ok([line |-> line.val, severity |-> severity.val,
                 confidence |-> confidence.val, test_id |-> test_id.val,
                 test_name |-> test_name.val, text |-> text.val,
                 filename |-> filename.val])

\* exists: target.exists(); p: the run of `bandit`
analyze_python_path_with_bandit(exists, p) ==
    IF ~exists THEN [exc |-> "", res |-> BanditFailure("Chemin introuvable")]
    ELSE IF ~p.onpath \/ p.kind = "fnf"
         THEN [exc |-> "", res |-> BanditFailure("Bandit n'est pas installe.")]
    ELSE IF p.kind = "timeout"
         THEN [exc |-> "", res |-> BanditFailure("Bandit timeout")]
    ELSE IF p.rc \notin {0, 1}
         THEN [exc |-> "",
               res |-> BanditFailure(IF Strip(p.stderr) # "" THEN Strip(p.stderr)
                                     ELSE "Execution Bandit echouee.")]
    ELSE LET data == json_loads(p.stdout, EmptyDict)
         IN  IF data.exc # ""
             THEN [exc |-> "",
                   res |-> BanditFailure("Impossible de parser la sortie JSON de Bandit.")]
             ELSE LET results == PyGet(data.val, "results", JList(<<>>))
                  IN  IF results.exc # ""
                      THEN [exc |-> results.exc, res |-> BanditFailure("<raised>")]
                      ELSE LET items == PyIter(results.val)
                               iss == [i \in 1..Len(items.val) |->
                                          BanditIssue(items.val[i])]
                               metrics == PyGet(data.val, "metrics", EmptyDict)
                           IN  IF items.exc # ""
                               THEN [exc |-> items.exc, res |-> BanditFailure("<raised>")]
                               ELSE IF FirstExc(iss) # ""
                               THEN [exc |-> FirstExc(iss),
                                     res |-> BanditFailure("<raised>")]
                               ELSE [exc |-> "",
                                     res |-> [success |-> TRUE,
                                              issues |-> [i \in 1..Len(iss) |-> iss[i].val],
                                              metrics |-> metrics.val,
                                              error |-> None]]

(***************************************************************************)
(* Outputs the tools can produce: the expected document of each tool, and  *)
(* documents that are JSON but not of the expected shape.                  *)
(***************************************************************************)
Line1 == JDict([line |-> JInt(1)])

SemgrepDoc ==
    JDict([results |-> JList(<< JDict([path |-> JStr("a.py"), start |-> Line1,
                                      end |-> Line1, check_id |-> JStr("rule"),
                                      extra |-> JDict([severity |-> JStr("ERROR"),
                                                      message |-> JStr("m")])]) >>)])
BanditDoc ==
    JDict([results |-> JList(<< JDict([line_number |-> JInt(2),
                                      issue_severity |-> JStr("HIGH"),
                                      issue_confidence |-> JStr("HIGH"),
                                      test_id |-> JStr("B605"),
                                      test_name |-> JStr("start_process_with_a_shell"),
                                      issue_text |-> JStr("m"),
                                      filename |-> JStr("a.py")]) >>),
           metrics |-> JDict([loc |-> JInt(2)])])
SnykDoc ==
    JDict([issues |-> JList(<< JDict([id |-> JStr("i"), severity |-> JStr("high")]) >>)])
EslintDoc ==
    JList(<< JDict([filePath |-> JStr("a.js"),
                   messages |-> JList(<< JDict([line |-> JInt(1),
                                               ruleId |-> JStr("no-eval"),
                                               severity |-> JInt(2),
                                               message |-> JStr("m")]) >>)]) >>)

\* JSON of another shape: a list or a scalar at the top, a non-object
\* element, a null where a list is expected
OddDocs(key) ==
    << JList(<<>>), EmptyDict, JStr("x"), JInt(3), JNull,
       JDict([k \in {key} |-> JList(<<JInt(3)>>)]),
       JDict([k \in {key} |-> JNull]),
       JDict([other |-> JInt(1)]) >>

Docs(tool) ==
    IF tool = "bandit" THEN <<BanditDoc>> \o OddDocs("results")
    ELSE IF tool = "semgrep" THEN <<SemgrepDoc>> \o OddDocs("results")
    ELSE IF tool = "snyk" THEN <<SnykDoc>> \o OddDocs("issues")
    ELSE <<EslintDoc, JList(<<JDict([messages |-> JNull])>>)>> \o OddDocs("messages")

Stdouts(tool) ==
    {OutEmpty, OutGarbage} \cup {OutJson(Docs(tool)[i]) : i \in 1..Len(Docs(tool))}

\* the runs of a tool the request handlers meet
RunProcs(tool) ==
    {[onpath |-> FALSE, kind |-> "exit", rc |-> 0, stdout |-> OutEmpty, stderr |-> ""],
     [onpath |-> TRUE, kind |-> "timeout", rc |-> 0, stdout |-> OutEmpty, stderr |-> ""],
     [onpath |-> TRUE, kind |-> "exit", rc |-> 1, stdout |-> OutJson(Docs(tool)[1]),
      stderr |-> ""],
     [onpath |-> TRUE, kind |-> "exit", rc |-> 0, stdout |-> OutGarbage, stderr |-> ""],
     [onpath |-> TRUE, kind |-> "exit", rc |-> 0,
      stdout |-> OutJson(IF tool = "eslint" THEN JDict([other |-> JInt(1)])
                         ELSE JList(<<>>)),
      stderr |-> ""],
     [onpath |-> TRUE, kind |-> "exit", rc |-> 2, stdout |-> OutEmpty,
      stderr |-> "UnicodeEncodeError: 'charmap' codec can't encode"]}

Procs(tool) ==
    {[onpath |-> FALSE, kind |-> "exit", rc |-> 0, stdout |-> OutEmpty, stderr |-> ""]}
    \cup {[onpath |-> TRUE, kind |-> k, rc |-> 0, stdout |-> OutEmpty, stderr |-> ""] :
            k \in {"timeout", "fnf"}}
    \cup {[onpath |-> TRUE, kind |-> "exit", rc |-> rc, stdout |-> o, stderr |-> ""] :
            rc \in {0, 1}, o \in Stdouts(tool)}
    \cup {[onpath |-> TRUE, kind |-> "exit", rc |-> 2, stdout |-> OutJson(Docs(tool)[1]),
           stderr |-> e] : e \in Stderrs}

(***************************************************************************)
(* Requests                                                                *)
(***************************************************************************)
ALLOWED_SCANNERS == {"bandit", "semgrep", "snyk", "eslint", "codeql", "gemini_detector"}

\* an absent list (None); a list is a sequence of strings
NoneSeq == <<None>>

HTTPException(status, detail) == [exc |-> "HTTPException", status |-> status,
                                  detail |-> detail, val |-> <<>>]
Value(x) == [exc |-> "", status |-> 200, detail |-> "", val |-> x]

RECURSIVE StripLowerNonBlank(_)
StripLowerNonBlank(names) ==
    IF names = <<>> THEN <<>>
    ELSE (IF Strip(Head(names)) # "" THEN <<Lower(Strip(Head(names)))>> ELSE <<>>)
         \o StripLowerNonBlank(Tail(names))

\* _normalize_and_validate_scanners that reads the body before the query
_normalize_and_validate_scanners_body_first(body_scanners, query_scanners) ==
    LET raw == IF body_scanners # NoneSeq /\ body_scanners # <<>>
               THEN StripLowerNonBlank(body_scanners)
               ELSE IF query_scanners # NoneSeq /\ query_scanners # <<"">>
               THEN StripLowerNonBlank(query_scanners)
               ELSE <<>>
        invalid == SelectSeq(raw, LAMBDA x : x \notin ALLOWED_SCANNERS)
    IN  IF raw = <<>> THEN Value(<<>>)
        ELSE IF invalid # <<>>
             THEN [HTTPException(400, "Scanner(s) non supporte(s)") EXCEPT !.val = invalid]
             ELSE Value(raw)

\* query_scanners is the list of the pieces between the commas of the query
\* string (<<"">> for the empty string), or NoneSeq.  val of the exception:
\* the names its detail lists
_normalize_and_validate_scanners(body_scanners, query_scanners) ==
    LET raw == IF query_scanners # NoneSeq /\ query_scanners # <<"">>
               THEN StripLowerNonBlank(query_scanners)
               ELSE IF body_scanners # NoneSeq /\ body_scanners # <<>>
               THEN StripLowerNonBlank(body_scanners)
               ELSE <<>>
        invalid == SelectSeq(raw, LAMBDA x : x \notin ALLOWED_SCANNERS)
    IN  IF raw = <<>> THEN Value(<<>>)
        ELSE IF invalid # <<>>
             THEN [HTTPException(400, "Scanner(s) non supporte(s)") EXCEPT !.val = invalid]
             ELSE Value(raw)

\* parse_github_url that takes the branch after any third segment
parse_github_url_any_third(url) ==
    LET parts == SelectSeq(url, LAMBDA x : x # "")
    IN  IF Len(parts) < 2 THEN HTTPException(400, "URL GitHub invalide.")
        ELSE Value([owner |-> parts[1], repo |-> parts[2],
                    branch |-> IF Len(parts) >= 4 THEN parts[4] ELSE None])

\* url: the pieces of the URL path between its slashes
parse_github_url(url) ==
    LET parts == SelectSeq(url, LAMBDA x : x # "")
    IN  IF Len(parts) < 2 THEN HTTPException(400, "URL GitHub invalide.")
        ELSE Value([owner |-> parts[1], repo |-> parts[2],
                    branch |-> IF Len(parts) >= 4 /\ parts[3] = "tree"
                               THEN parts[4] ELSE None])

Range(q) == {q[i] : i \in 1..Len(q)}

(***************************************************************************)
(* run_all_scans_on_path, lines 354-376: the scanners it will run          *)
(***************************************************************************)
\* ResolveSelection whose default for an unknown language is that of a
\* language other than Python
ResolveSelection_unknown_as_other(scanners, language, h) ==
    LET available == {"bandit", "semgrep", "snyk", "eslint", "codeql", "gemini_detector"}
        given == IF scanners = NoneSeq THEN {} ELSE {Lower(x) : x \in Range(scanners)}
        selected == IF given # {} THEN given
               ELSE IF language # None /\ Lower(language) = "python"
               THEN {"bandit", "gemini_detector"}
               ELSE {"semgrep", "gemini_detector"}
        known == selected \cap available
    IN  IF SemgrepSuppressed(h) THEN known \ {"semgrep"} ELSE known

\* lines 354-373: selected
ResolveSelection(scanners, language, h) ==
    LET available == {"bandit", "semgrep", "snyk", "eslint", "codeql", "gemini_detector"}
        given == IF scanners = NoneSeq THEN {} ELSE {Lower(x) : x \in Range(scanners)}
        selected == IF given # {} THEN given
               ELSE IF language = None THEN {"bandit", "semgrep", "gemini_detector"}
               ELSE IF Lower(language) = "python" THEN {"bandit", "gemini_detector"}
               ELSE {"semgrep", "gemini_detector"}
        known == selected \cap available
    IN  IF SemgrepSuppressed(h) THEN known \ {"semgrep"} ELSE known

\* line 376
is_python(language) == Lower(IF language = None THEN "python" ELSE language) = "python"

\* the order of the "if ... in selected" blocks, lines 378-403
ScanOrder == <<"bandit", "semgrep", "snyk", "eslint", "codeql", "gemini_detector">>

\* whether the block of scanner s runs
BlockRuns(s, selected, language) ==
    s \in selected /\ (s = "bandit" => is_python(language))

(***************************************************************************)
(* Paths and archives (download_repo_zip).  A path is the sequence of its  *)
(* components; an archive entry name is the sequence of the pieces between *)
(* its slashes, so <<"", "etc">> is "/etc" and <<"..", "x">> is "../x".    *)
(***************************************************************************)
\* transfer and extraction ceilings (MAX_REPO_ZIP_BYTES, MAX_REPO_EXTRACT_BYTES),
\* in units small enough to enumerate
MAX_ZIP_BYTES == 3
MAX_EXTRACT_BYTES == 3
\* largest chunk iter_content yields (chunk_size)
ChunkSize == 2
\* entries of an archive
MaxEntries == 2

TempRoot == <<"tmp">>
tmpdir == <<"tmp", "repo_dl">>
tmp_zip == <<"tmp", "repo_zip.zip">>
snippet_tmp == <<"tmp", "snippet">>

IsPrefix(a, b) == Len(a) <= Len(b) /\ SubSeq(b, 1, Len(a)) = a

\* PurePath construction: empty and "." components vanish
Normal(comps) == SelectSeq(comps, LAMBDA c : c \notin {"", "."})

\* directory.joinpath(name): an absolute name replaces the directory
joinpath(directory, name) ==
    IF name # <<>> /\ Head(name) = "" THEN Normal(name)
    ELSE directory \o Normal(name)

\* Path.resolve() where no component is a symbolic link: ".." steps up
RECURSIVE ResolveFrom(_, _)
ResolveFrom(done, rest) ==
    IF rest = <<>> THEN done
    ELSE IF Head(rest) = ".."
         THEN ResolveFrom(IF done = <<>> THEN <<>> ELSE SubSeq(done, 1, Len(done) - 1),
                          Tail(rest))
         ELSE ResolveFrom(Append(done, Head(rest)), Tail(rest))

resolve(path) == ResolveFrom(<<>>, path)

\* directory.resolve() in target.resolve().parents or equal to it
_is_within_directory(directory, target) == IsPrefix(resolve(directory), resolve(target))

\* where ZipFile.extractall writes a member: below the directory, the
\* "", "." and ".." pieces of its name dropped
ExtractDest(directory, name) ==
    directory \o SelectSeq(name, LAMBDA c : c \notin {"", ".", ".."})

EntryNames ==
    { <<"repo", "m.py">>, <<".", "m.py">>, <<"repo", "..", "m.py">>,
      <<"..", "..", "etc", "passwd">>, <<"repo", "..", "..", "x">>,
      <<"", "etc", "passwd">> }

Entries == [filename : EntryNames, file_size : {1, MAX_EXTRACT_BYTES}]

\* the archives a download can hold, as their infolist()
Archives == UNION { [1..n -> Entries] : n \in 0..MaxEntries }

RECURSIVE SumSizes(_)
SumSizes(infolist) ==
    IF infolist = <<>> THEN 0
    ELSE Head(infolist).file_size + SumSizes(Tail(infolist))

\* ExtractArchive skipping the entries that leave the directory instead of
\* failing
ExtractArchive_skipping(infolist) ==
    LET inside == SelectSeq(infolist, LAMBDA e :
                     _is_within_directory(tmpdir, joinpath(tmpdir, e.filename)))
    IN  IF SumSizes(infolist) > MAX_EXTRACT_BYTES
        THEN [exc |-> "HTTPException", status |-> 413,
              detail |-> "Archive contient trop de donnees extraites",
              written |-> {}, path |-> <<>>]
        ELSE IF infolist = <<>>
        THEN [exc |-> "IndexError", status |-> 500, detail |-> "IndexError",
              written |-> {}, path |-> <<>>]
        ELSE [exc |-> "", status |-> 200, detail |-> "",
              written |-> {ExtractDest(tmpdir, inside[i].filename) : i \in 1..Len(inside)},
              path |-> Normal(tmpdir \o <<Head(infolist[1].filename)>>)]

\* lines 284-306 on an archive that opened: the exception raised, or the
\* files written and the path returned
ExtractArchive(infolist) ==
    IF SumSizes(infolist) > MAX_EXTRACT_BYTES
    THEN [exc |-> "HTTPException", status |-> 413,
          detail |-> "Archive contient trop de donnees extraites",
          written |-> {}, path |-> <<>>]
    ELSE IF \E i \in 1..Len(infolist) :
               ~_is_within_directory(tmpdir, joinpath(tmpdir, infolist[i].filename))
    THEN [exc |-> "HTTPException", status |-> 400,
          detail |-> "Archive contient des chemins invalides",
          written |-> {}, path |-> <<>>]
    ELSE IF infolist = <<>>
    THEN [exc |-> "IndexError", status |-> 500, detail |-> "IndexError",
          written |-> {}, path |-> <<>>]
    ELSE [exc |-> "", status |-> 200, detail |-> "",
          written |-> {ExtractDest(tmpdir, infolist[i].filename) : i \in 1..Len(infolist)},
          path |-> Normal(tmpdir \o <<Head(infolist[1].filename)>>)]

\* PurePath.parent
Parent(path) == IF path = <<>> THEN <<>> ELSE SubSeq(path, 1, Len(path) - 1)

\* shutil.rmtree(directory, ignore_errors=True) on the files files
rmtree(files, directory) == {f \in files : ~IsPrefix(directory, f)}

(***************************************************************************)
(* detect_path on a directory: the issues of every *.py file below it,     *)
(* each with the file it was found in                                      *)
(***************************************************************************)
RECURSIVE SeqOfSet(_)
SeqOfSet(S) ==
    IF S = {} THEN <<>>
    ELSE LET x == CHOOSE y \in S : TRUE IN <<x>> \o SeqOfSet(S \ {x})

WithFile(issues, file) ==
    [i \in 1..Len(issues) |->
        [type |-> issues[i].type, pattern |-> issues[i].pattern,
         match_masked |-> issues[i].match_masked,
         match_length |-> issues[i].match_length, file |-> file]]

RECURSIVE DirIssues(_, _, _)
DirIssues(pyfiles, text, reveal) ==
    IF pyfiles = <<>> THEN <<>>
    ELSE WithFile(detect_code_string(text, reveal).issues, Head(pyfiles))
         \o DirIssues(Tail(pyfiles), text, reveal)

\* files: the files below the directory; text: the content of its *.py files
detect_path_dir(files, text, reveal) ==
    [success |-> TRUE, error |-> None,
     issues |-> DirIssues(SeqOfSet({f \in files : f[Len(f)] = "m.py"}), text, reveal)]

(***************************************************************************)
(* Request inputs                                                          *)
(***************************************************************************)
RawNames == ALLOWED_SCANNERS \cup {"foo", " Bandit", " "}

NameLists == {<<>>} \cup {<<n>> : n \in RawNames}

\* longer lists: several adapters in one run
MixedLists == { <<"semgrep", "eslint">>, <<"eslint", "snyk">>, <<"snyk", "foo">>,
                <<" Bandit", "codeql">>, <<"bandit", "snyk", "gemini_detector">> }

ScannerInputs ==
    {[body |-> b, query |-> NoneSeq] : b \in {NoneSeq} \cup NameLists \cup MixedLists}
    \cup {[body |-> b, query |-> q] : b \in {NoneSeq, <<"foo">>},
                                       q \in {<<"">>, <<"semgrep">>, <<"foo">>,
                                              <<" Bandit", " ">>}}

Urls == { <<"org">>, <<"org", "", "repo">>, <<"org", "repo", "tree", "dev">>,
          <<"org", "repo", "blob", "dev">> }

SecretSnippet ==
    <<"A","K","I","A","A","B","C","D","E","F","G","H","I","J","K","L","M","N","O","P">>
BrokenSnippet == SecretSnippet \o <<"(">>
Snippets == {SecretSnippet, BrokenSnippet}

Hosts == {[win |-> FALSE, force |-> FALSE], [win |-> TRUE, force |-> FALSE],
          [win |-> TRUE, force |-> TRUE]}

\* the scanner inputs of the repository requests
RepoScannerInputs ==
    {[body |-> b, query |-> NoneSeq] : b \in {NoneSeq, <<"foo">>, <<"eslint", "snyk">>}}
    \cup {[body |-> <<"foo">>, query |-> <<"semgrep">>],
          [body |-> NoneSeq, query |-> <<"foo">>]}

Requests ==
    {[endpoint |-> "analyze", url |-> <<>>, body |-> x.body, query |-> x.query,
      language |-> l] : x \in ScannerInputs, l \in {"python", "javascript"}}
    \cup {[endpoint |-> "analyze_github", url |-> u, body |-> x.body, query |-> x.query,
           language |-> None] : x \in RepoScannerInputs, u \in Urls}
    \cup {[endpoint |-> "run_all_scans_on_path", url |-> <<>>, body |-> b,
           query |-> NoneSeq, language |-> l] :
             b \in {NoneSeq} \cup NameLists \cup MixedLists,
             l \in {None, "Python", "javascript"}}
    \cup {[endpoint |-> "generate_and_analyze", url |-> <<>>, body |-> b,
           query |-> NoneSeq, language |-> l] :
             b \in {NoneSeq} \cup NameLists \cup MixedLists,
             l \in {"python", "javascript"}}

NoResp == [kind |-> "none", status |-> 0, detail |-> ""]

\* an entry of io: an HTTP request (with the status of its response), the
\* call of a scanner, a spawned process, the call of the code generator
Event(kind, what, status) == [kind |-> kind, what |-> what, status |-> status]

RInit ==
    /\ req \in Requests
    /\ host \in Hosts
    /\ code \in IF req.endpoint \in {"analyze", "run_all_scans_on_path"}
               THEN Snippets ELSE {<<>>}
    /\ REVEAL_SECRETS = "0"
    /\ dcall = "none"
    /\ dres = NoResult
    /\ pc = "start"
    /\ io = <<>>
    /\ branch = None
    /\ total = 0
    /\ written = 0
    /\ archive = [ok |-> FALSE, infolist |-> <<>>]
    /\ fs = {}
    /\ repo_path = <<>>
    /\ sel = {}
    /\ pos = 1
    /\ scans = <<>>
    /\ timings = {}
    /\ resp = NoResp
    /\ acall = [tool |-> "none"]
    /\ mcall = [fn |-> "none"]
    /\ LimiterIdle

\* the handler ends: with a response, or with an exception the framework
\* turns into an error response
Respond(kind, status, detail) ==
    /\ pc' = "done"
    /\ resp' = [kind |-> kind, status |-> status, detail |-> detail]

(***************************************************************************)
(* /analyze, lines 444-460: validation, then the snippet is written to a   *)
(* temporary directory and run_all_scans_on_path starts                    *)
(***************************************************************************)
AnalyzeStart ==
    /\ pc = "start" /\ req.endpoint = "analyze"
    /\ LET v == _normalize_and_validate_scanners(req.body, req.query)
       IN  IF v.exc # ""
           THEN /\ Respond("error", v.status, v.detail)
                /\ UNCHANGED <<fs, sel>>
           ELSE /\ fs' = fs \cup {snippet_tmp}
                /\ sel' = ResolveSelection(v.val, req.language, host)
                /\ pc' = "scan"
                /\ UNCHANGED resp
    /\ UNCHANGED <<avars, dvars, req, host, io, branch, total, written, archive, repo_path, pos,
                   scans, timings>>

\* run_all_scans_on_path called on a file, lines 354-376
DirectStart ==
    /\ pc = "start" /\ req.endpoint = "run_all_scans_on_path"
    /\ fs' = fs \cup {snippet_tmp}
    /\ sel' = ResolveSelection(req.body, req.language, host)
    /\ pc' = "scan"
    /\ UNCHANGED <<avars, dvars, req, host, io, branch, total, written, archive, repo_path, pos,
                   scans, timings, resp>>

(***************************************************************************)
(* /analyze-github, lines 490-508                                          *)
(***************************************************************************)
GithubParseUrl ==
    /\ pc = "start" /\ req.endpoint = "analyze_github"
    /\ LET v == parse_github_url(req.url)
       IN  IF v.exc # ""
           THEN /\ Respond("error", v.status, v.detail)
                /\ UNCHANGED branch
           ELSE /\ branch' = v.val.branch
                /\ pc' = IF v.val.branch = None THEN "resolve_branch" ELSE "download"
                /\ UNCHANGED resp
    /\ UNCHANGED <<avars, dvars, req, host, io, total, written, archive, fs, repo_path, sel, pos,
                   scans, timings>>

\* lines 497-505: GET /repos/{owner}/{repo}; its default_branch, else "main"
GithubResolveBranch ==
    /\ pc = "resolve_branch"
    /\ io' = Append(io, Event("http", "GET repos", 200))
    /\ \E b \in {"main", "dev"} : branch' = b
    /\ pc' = "download"
    /\ UNCHANGED <<avars, dvars, req, host, total, written, archive, fs, repo_path, sel, pos,
                   scans, timings, resp>>

(***************************************************************************)
(* download_repo_zip                                                       *)
(***************************************************************************)
\* the Content-Length header: absent, not a number, or a number
ContentLengths ==
    {[kind |-> "absent", n |-> 0], [kind |-> "text", n |-> 0]}
    \cup {[kind |-> "int", n |-> n] : n \in {0, MAX_ZIP_BYTES, MAX_ZIP_BYTES + 1}}

\* StatusFailure without the test of the other statuses from 400 on
StatusFailure_404_403(status) ==
    IF status = 404 THEN "Depot ou branche introuvable."
    ELSE IF status = 403 THEN "Acces refuse (token manquant ou rate-limit)."
    ELSE ""

\* lines 249-254: the detail of the error a response status raises, "" if none
StatusFailure(status) ==
    IF status = 404 THEN "Depot ou branche introuvable."
    ELSE IF status = 403 THEN "Acces refuse (token manquant ou rate-limit)."
    ELSE IF status >= 400 THEN "Erreur lors du telechargement du depot"
    ELSE ""

NoArchive == [ok |-> FALSE, infolist |-> <<>>]

\* CleanupFailed without the rmtree of the extraction directory
CleanupFailed_zip_only(files) == files \ {tmp_zip}

\* the except and finally clauses, lines 307-321
CleanupFailed(files) == rmtree(files \ {tmp_zip}, tmpdir)

\* lines 248-271: the request, the status and Content-Length checks, mkdtemp
\* and the temporary archive file
DownloadStart ==
    /\ pc = "download"
    /\ \E status \in {200, 404, 403, 500}, cl \in ContentLengths :
          /\ io' = Append(io, Event("http", "GET zipball", status))
          /\ IF StatusFailure(status) # ""
             THEN Respond("error", status, StatusFailure(status)) /\ UNCHANGED fs
             ELSE IF cl.kind = "int" /\ cl.n > MAX_ZIP_BYTES
             THEN Respond("error", 413, "Archive trop volumineuse (Content-Length)")
                  /\ UNCHANGED fs
             ELSE /\ fs' = fs \cup {tmpdir, tmp_zip}
                  /\ pc' = "stream"
                  /\ UNCHANGED resp
    /\ UNCHANGED <<avars, dvars, req, host, branch, total, written, archive, repo_path, sel, pos,
                   scans, timings>>

\* ExceedsCeiling testing the bytes received before the chunk is counted
ExceedsCeiling_before(tot, n) == tot > MAX_ZIP_BYTES

\* lines 275-276: the ceiling test on the bytes received with a chunk of n
\* bytes, tot received before
ExceedsCeiling(tot, n) == tot + n > MAX_ZIP_BYTES

\* one iteration of the loop of lines 272-279
StreamChunk ==
    /\ pc = "stream"
    /\ \E n \in 0..ChunkSize :
          IF n = 0
          THEN UNCHANGED <<total, written, fs, pc, resp>>
          ELSE /\ total' = total + n
               /\ IF ExceedsCeiling(total, n)
                  THEN /\ fs' = CleanupFailed(fs)
                       /\ Respond("error", 413,
                                  "Archive trop volumineuse pendant le telechargement")
                       /\ UNCHANGED written
                  ELSE /\ written' = written + n
                       /\ UNCHANGED <<fs, pc, resp>>
    /\ UNCHANGED <<avars, dvars, req, host, io, branch, archive, repo_path, sel, pos,
                   scans, timings>>

\* iter_content raises: the connection broke
StreamError ==
    /\ pc = "stream"
    /\ fs' = CleanupFailed(fs)
    /\ Respond("error", 500, "ConnectionError")
    /\ UNCHANGED <<avars, dvars, req, host, io, branch, total, written, archive, repo_path, sel, pos,
                   scans, timings>>

\* the stream ends, lines 280-281: the temporary archive is complete
StreamEnd ==
    /\ pc = "stream"
    /\ \/ archive' = [ok |-> FALSE, infolist |-> <<>>]
       \/ /\ written > 0
          /\ \E infolist \in Archives : archive' = [ok |-> TRUE, infolist |-> infolist]
    /\ pc' = "open"
    /\ UNCHANGED <<avars, dvars, req, host, io, branch, total, written, fs, repo_path,
                   sel, pos, scans, timings, resp>>

\* lines 283-321: the archive is opened, checked and extracted, and the
\* temporary archive removed
OpenAndExtract ==
    /\ pc = "open"
    /\ IF ~archive.ok
       THEN /\ fs' = CleanupFailed(fs)
            /\ Respond("error", 500, "BadZipFile")
            /\ UNCHANGED repo_path
       ELSE LET x == ExtractArchive(archive.infolist)
            IN  IF x.exc # ""
                THEN /\ fs' = CleanupFailed(fs)
                     /\ Respond("error", x.status, x.detail)
                     /\ UNCHANGED repo_path
                ELSE /\ fs' = (fs \cup x.written) \ {tmp_zip}
                     /\ repo_path' = x.path
                     /\ pc' = "validate"
                     /\ UNCHANGED resp
    /\ archive' = NoArchive
    /\ UNCHANGED <<avars, dvars, req, host, io, branch, total, written, sel, pos,
                   scans, timings>>

\* lines 509-516: the scanner names are validated once the repository is there
GithubValidate ==
    /\ pc = "validate"
    /\ LET v == _normalize_and_validate_scanners(req.body, req.query)
       IN  IF v.exc # ""
           THEN /\ fs' = rmtree(fs, Parent(repo_path))
                /\ Respond("error", v.status, v.detail)
                /\ UNCHANGED sel
           ELSE /\ sel' = ResolveSelection(v.val, None, host)
                /\ pc' = "scan"
                /\ UNCHANGED <<fs, resp>>
    /\ UNCHANGED <<avars, dvars, req, host, io, branch, total, written, archive, repo_path, pos,
                   scans, timings>>

(***************************************************************************)
(* /generate-and-analyze, lines 554-598                                    *)
(***************************************************************************)
\* lines 580-588
GenSelection(scanners, language) ==
    LET given == IF scanners = NoneSeq THEN {} ELSE Range(scanners)
        selected == IF given # {} THEN given
                    ELSE IF language = "python" THEN {"bandit", "gemini_detector"}
                    ELSE {"semgrep", "gemini_detector"}
    IN  selected \cap ALLOWED_SCANNERS

GenerateStart ==
    /\ pc = "start" /\ req.endpoint = "generate_and_analyze"
    /\ \E HAS_AI_GENERATOR \in BOOLEAN, generated \in BOOLEAN, text \in Snippets :
          IF ~HAS_AI_GENERATOR
          THEN /\ Respond("error", 503, "AI generator module not available")
               /\ UNCHANGED <<code, io, fs, sel>>
          ELSE /\ io' = Append(io, Event("generate", "generate_code_with_ai", 0))
               /\ IF ~generated
                  THEN /\ Respond("error", 500, "Code generation failed")
                       /\ UNCHANGED <<code, fs, sel>>
                  ELSE /\ code' = text
                       /\ sel' = GenSelection(req.body, req.language)
                       /\ fs' = fs \cup {snippet_tmp}
                       /\ pc' = "scan"
                       /\ UNCHANGED resp
    /\ UNCHANGED <<avars, REVEAL_SECRETS, dcall, dres, req, host, branch, total, written, archive,
                   repo_path, pos, scans, timings>>

(***************************************************************************)
(* The scanner blocks: run_all_scans_on_path lines 378-403, and lines      *)
(* 605-623 of /generate-and-analyze                                        *)
(***************************************************************************)
Order ==
    IF req.endpoint = "generate_and_analyze"
    THEN <<"bandit", "semgrep", "gemini_detector">>
    ELSE ScanOrder

\* index of the next block that runs, 0 when none is left
NextBlock ==
    LET left == {i \in pos..Len(Order) : BlockRuns(Order[i], sel, req.language)}
    IN  IF left = {} THEN 0 ELSE CHOOSE i \in left : \A j \in left : i <= j

\* the path the scanners are given
Target == IF req.endpoint = "analyze_github" THEN repo_path ELSE snippet_tmp

TargetExists == \E f \in fs : IsPrefix(Target, f)

\* what the handler's finally / with clauses remove when it is left
Cleaned ==
    IF req.endpoint = "analyze_github" THEN rmtree(fs, Parent(repo_path))
    ELSE IF req.endpoint = "run_all_scans_on_path" THEN fs
    ELSE fs \ {snippet_tmp}

\* the block of scanner name ends: its result is stored, or its exception
\* leaves the handler
EndBlock(name, out, events) ==
    /\ io' = io \o <<Event("scan", name, 0)>> \o events
    /\ IF out.exc # ""
       THEN /\ fs' = Cleaned
            /\ Respond("error", 500, out.exc)
            /\ UNCHANGED <<pos, scans, timings>>
       ELSE /\ scans' = (name :> out.res) @@ scans
            /\ timings' = timings \cup {name}
            /\ pos' = NextBlock + 1
            /\ UNCHANGED <<fs, pc, resp>>
    /\ UNCHANGED <<avars, dvars, req, host, branch, total, written, archive, repo_path, sel>>

AtBlock(name) == pc = "scan" /\ NextBlock # 0 /\ Order[NextBlock] = name

Spawn(p, cmd) == IF p.onpath THEN <<Event("spawn", cmd, 0)>> ELSE <<>>

ScanBandit ==
    /\ AtBlock("bandit")
    /\ \E p \in RunProcs("bandit") :
          EndBlock("bandit", analyze_python_path_with_bandit(TargetExists, p),
                   IF TargetExists THEN Spawn(p, "bandit") ELSE <<>>)

ScanSemgrep ==
    /\ AtBlock("semgrep")
    /\ \E p1 \in RunProcs("semgrep") :
          IF SemgrepFallsBack(host, p1)
          THEN \E p2 \in RunProcs("semgrep") :
                  EndBlock("semgrep", run_semgrep(host, p1, p2),
                           Spawn(p1, "semgrep") \o Spawn(p2, "python -m semgrep"))
          ELSE EndBlock("semgrep", run_semgrep(host, p1, p1),
                        IF SemgrepSuppressed(host) THEN <<>> ELSE Spawn(p1, "semgrep"))

ScanSnyk ==
    /\ AtBlock("snyk")
    /\ \E p \in RunProcs("snyk") : EndBlock("snyk", run_snyk_code(p), Spawn(p, "snyk"))

ScanEslint ==
    /\ AtBlock("eslint")
    /\ \E p \in RunProcs("eslint") : EndBlock("eslint", run_eslint(p), Spawn(p, "eslint"))

ScanCodeql ==
    /\ AtBlock("codeql")
    /\ EndBlock("codeql", run_codeql, <<>>)

ScanDetector ==
    /\ AtBlock("gemini_detector")
    /\ EndBlock("gemini_detector",
                Returned(IF req.endpoint = "generate_and_analyze"
                         THEN detect_code_string(code, REVEAL_SECRETS)
                         ELSE IF req.endpoint = "analyze_github"
                         THEN detect_path_dir(fs, SecretSnippet, REVEAL_SECRETS)
                         ELSE detect_path(code, TRUE, REVEAL_SECRETS)),
                <<>>)

\* no block is left: lines 405-407, then the rest of the handler
ScanReturn ==
    /\ pc = "scan" /\ NextBlock = 0
    /\ IF req.endpoint = "analyze"
       THEN /\ scans' = ("gemini_detector_snippet" :>
                            detect_code_string(code, REVEAL_SECRETS)) @@ scans
            /\ io' = Append(io, Event("scan", "gemini_detector_snippet", 0))
       ELSE UNCHANGED <<scans, io>>
    /\ fs' = Cleaned
    /\ Respond("ok", 200, "")
    /\ UNCHANGED <<avars, dvars, req, host, branch, total, written, archive, repo_path, sel, pos,
                   timings>>

RNext ==
    \/ AnalyzeStart \/ DirectStart \/ GenerateStart
    \/ GithubParseUrl \/ GithubResolveBranch
    \/ DownloadStart \/ StreamChunk \/ StreamError \/ StreamEnd \/ OpenAndExtract
    \/ GithubValidate
    \/ ScanBandit \/ ScanSemgrep \/ ScanSnyk \/ ScanEslint \/ ScanCodeql
    \/ ScanDetector \/ ScanReturn

Spec == RInit /\ [][RNext]_vars

(***************************************************************************)
(* The adapters called on their own, on every run of Procs                 *)
(***************************************************************************)
NotCalled == Returned(Failure("<no call>"))

AdapterCalls ==
    {[tool |-> "bandit", h |-> h, exists |-> e, p1 |-> p, p2 |-> p,
      called |-> FALSE, out |-> NotCalled] :
        h \in {[win |-> FALSE, force |-> FALSE]}, e \in BOOLEAN, p \in Procs("bandit")}
    \cup {[tool |-> "semgrep", h |-> h, exists |-> TRUE, p1 |-> p, p2 |-> q,
           called |-> FALSE, out |-> NotCalled] :
             h \in Hosts, p \in Procs("semgrep"), q \in RunProcs("semgrep")}
    \cup UNION { {[tool |-> t, h |-> [win |-> FALSE, force |-> FALSE], exists |-> TRUE,
                    p1 |-> p, p2 |-> p, called |-> FALSE, out |-> NotCalled] :
                      p \in Procs(t)} : t \in {"snyk", "eslint", "codeql"} }
    \cup {[tool |-> "gemini_detector", h |-> [win |-> FALSE, force |-> FALSE],
           exists |-> e, p1 |-> p, p2 |-> p, called |-> FALSE, out |-> NotCalled] :
             e \in BOOLEAN, p \in {q \in RunProcs("codeql") : ~q.onpath}}

AInit ==
    /\ acall \in AdapterCalls
    /\ code \in IF acall.tool = "gemini_detector" THEN Snippets ELSE {<<>>}
    /\ REVEAL_SECRETS = "0"
    /\ dcall = "none"
    /\ dres = NoResult
    /\ pc = "unused"
    /\ req = [endpoint |-> "none"]
    /\ host = [win |-> FALSE, force |-> FALSE]
    /\ io = <<>>
    /\ branch = None
    /\ total = 0
    /\ written = 0
    /\ archive = [ok |-> FALSE, infolist |-> <<>>]
    /\ fs = {}
    /\ repo_path = <<>>
    /\ sel = {}
    /\ pos = 1
    /\ scans = <<>>
    /\ timings = {}
    /\ resp = NoResp
    /\ mcall = [fn |-> "none"]
    /\ LimiterIdle

Call(tool, out) ==
    /\ acall.tool = tool /\ ~acall.called
    /\ acall' = [acall EXCEPT !.called = TRUE, !.out = out]
    /\ UNCHANGED <<dvars, rvars, mcall, lvars>>

RunBandit == Call("bandit", analyze_python_path_with_bandit(acall.exists, acall.p1))
RunSemgrep == Call("semgrep", run_semgrep(acall.h, acall.p1, acall.p2))
RunSnyk == Call("snyk", run_snyk_code(acall.p1))
RunEslint == Call("eslint", run_eslint(acall.p1))
RunCodeql == Call("codeql", run_codeql)
\* detect_path on a file holding code; exists: the file can be read
RunDetector ==
    Call("gemini_detector", Returned(detect_path(code, acall.exists, REVEAL_SECRETS)))

ANext == RunBandit \/ RunSemgrep \/ RunSnyk \/ RunEslint \/ RunCodeql \/ RunDetector

SpecAdapters == AInit /\ [][ANext]_vars

(***************************************************************************)
(* Severity aggregation: calculate_metrics (app_unified.py),               *)
(* summarize_bandit and calculate_risk_score (security_tool.py).           *)
(* An issue is given by the value under its severity key: a JSON value, or *)
(* Absent when it has no such key.  scanners_data is the sequence of its   *)
(* items, [name, issues].                                                  *)
(***************************************************************************)
Absent == [t |-> "absent", v |-> None]

\* str.upper() on the severity spellings of this model
Upper(x) ==
    CASE x \in {"high", "High"} -> "HIGH"
      [] x \in {"medium"} -> "MEDIUM"
      [] x \in {"low"} -> "LOW"
      [] x \in {"error", "Error"} -> "ERROR"
      [] x \in {"warning", "Warning"} -> "WARNING"
      [] x \in {"info"} -> "INFO"
      [] OTHER -> x

NoCounts == [exc |-> "", high |-> 0, med |-> 0, low |-> 0]

\* lines 58-66 of calculate_metrics: the loop over the issues of one scanner
RECURSIVE CountIssues(_, _)
CountIssues(issues, c) ==
    IF issues = <<>> \/ c.exc # "" THEN c
    ELSE LET s == Head(issues)
             sev == IF s.t = "absent" THEN "" ELSE IF s.t = "str" THEN Upper(s.v) ELSE None
         IN  IF s.t \notin {"absent", "str"}
             THEN [c EXCEPT !.exc = "AttributeError"]
             ELSE CountIssues(Tail(issues),
                    IF sev \in {"HIGH", "ERROR"} THEN [c EXCEPT !.high = @ + 1]
                    ELSE IF sev \in {"MEDIUM", "WARNING"} THEN [c EXCEPT !.med = @ + 1]
                    ELSE IF sev \in {"LOW", "INFO"} THEN [c EXCEPT !.low = @ + 1]
                    ELSE c)

\* lines 54-66: the loop over the items of scanners_data
RECURSIVE CountScanners(_, _)
CountScanners(data, c) ==
    IF data = <<>> \/ c.exc # "" THEN c
    ELSE CountScanners(Tail(data),
                       IF Head(data).name = "_meta" THEN c
                       ELSE CountIssues(Head(data).issues, c))

\* lines 69-76: the issues of the detector entry, the snippet one first
DetectorIssues(data) ==
    LET at(name) == {i \in 1..Len(data) : data[i].name = name}
    IN  IF at("gemini_detector_snippet") # {}
        THEN data[CHOOSE i \in at("gemini_detector_snippet") : TRUE].issues
        ELSE IF at("gemini_detector") # {}
        THEN data[CHOOSE i \in at("gemini_detector") : TRUE].issues
        ELSE <<>>

calculate_metrics(data) ==
    LET c == CountScanners(data, NoCounts)
        med == c.med + Len(DetectorIssues(data))
    IN  [exc |-> c.exc, high |-> c.high, med |-> med, low |-> c.low,
         risk_score |-> c.high * 5 + med * 2 + c.low * 1]

\* severity.get(key, 0)
GetCount(severity, key) == IF key \in DOMAIN severity THEN severity[key] ELSE 0

\* calculate_risk_score with the weight of MEDIUM for HIGH
calculate_risk_score_flat(severity) ==
    2 * GetCount(severity, "HIGH") + 2 * GetCount(severity, "MEDIUM")
        + 1 * GetCount(severity, "LOW")

\* float(sum(weights[key] * severity.get(key, 0) for key in weights)); the
\* sum of integers is the same number as a float
calculate_risk_score(severity) ==
    5 * GetCount(severity, "HIGH") + 2 * GetCount(severity, "MEDIUM")
        + 1 * GetCount(severity, "LOW")

\* summarize_bandit on the issue_severity values of the results
RECURSIVE summarize_bandit(_)
summarize_bandit(results) ==
    IF results = <<>> THEN [HIGH |-> 0, MEDIUM |-> 0, LOW |-> 0]
    ELSE LET rest == summarize_bandit(Tail(results))
             s == Head(results)
             sev == IF s.t = "str" THEN Upper(s.v) ELSE ""
         IN  IF sev \in {"HIGH", "MEDIUM", "LOW"}
             THEN [rest EXCEPT ![sev] = @ + 1]
             ELSE rest

\* largest number of issues of a scanner, largest count of a severity
MaxIssues == 2
MaxCount == 2

SeverityStrings ==
    {"HIGH", "MEDIUM", "LOW", "ERROR", "WARNING", "INFO", "high", "Warning", "info",
     "CRITICAL", ""}

\* the severity values the issues of a scanner can carry
SeveritiesOf(name) ==
    IF name \in {"gemini_detector", "gemini_detector_snippet"} THEN {Absent}
    ELSE IF name = "eslint" THEN {JInt(1), JInt(2), JNull}
    ELSE IF name = "snyk" THEN {JStr(x) : x \in SeverityStrings} \cup {Absent}
    ELSE {JStr(x) : x \in SeverityStrings} \cup {JNull}

IssueLists(name) == UNION { [1..n -> SeveritiesOf(name)] : n \in 0..MaxIssues }

MetricsData ==
    UNION { {<<[name |-> n, issues |-> l]>> : l \in IssueLists(n)} :
              n \in {"bandit", "semgrep", "snyk", "eslint", "gemini_detector",
                     "gemini_detector_snippet"} }
    \cup {<<[name |-> "semgrep", issues |-> l], [name |-> "_meta", issues |-> <<>>],
            [name |-> "gemini_detector", issues |-> d]>> :
              l \in {<<JStr("ERROR")>>, <<JStr("CRITICAL")>>},
              d \in IssueLists("gemini_detector")}

SeverityDicts ==
    UNION { [keys -> 0..MaxCount] : keys \in SUBSET {"HIGH", "MEDIUM", "LOW"} }

NoMetrics == [exc |-> "<no call>", high |-> 0, med |-> 0, low |-> 0, risk_score |-> 0]

MetricsCalls ==
    {[fn |-> "calculate_metrics", data |-> d, severity |-> <<>>, called |-> FALSE,
      out |-> NoMetrics] : d \in MetricsData}
    \cup {[fn |-> "calculate_risk_score", data |-> <<>>, severity |-> c, called |-> FALSE,
           out |-> NoMetrics] : c \in SeverityDicts}
    \cup {[fn |-> "build_summary", data |-> <<[name |-> "bandit", issues |-> l]>>,
           severity |-> <<>>, called |-> FALSE, out |-> NoMetrics] :
             l \in IssueLists("bandit")}

MInit ==
    /\ mcall \in MetricsCalls
    /\ LimiterIdle
    /\ acall = [tool |-> "none"]
    /\ code = <<>>
    /\ REVEAL_SECRETS = "0"
    /\ dcall = "none"
    /\ dres = NoResult
    /\ pc = "unused"
    /\ req = [endpoint |-> "none"]
    /\ host = [win |-> FALSE, force |-> FALSE]
    /\ io = <<>>
    /\ branch = None
    /\ total = 0
    /\ written = 0
    /\ archive = [ok |-> FALSE, infolist |-> <<>>]
    /\ fs = {}
    /\ repo_path = <<>>
    /\ sel = {}
    /\ pos = 1
    /\ scans = <<>>
    /\ timings = {}
    /\ resp = NoResp

MCall(fn, out) ==
    /\ mcall.fn = fn /\ ~mcall.called
    /\ mcall' = [mcall EXCEPT !.called = TRUE, !.out = out]
    /\ UNCHANGED <<dvars, rvars, acall, lvars>>

CallCalculateMetrics == MCall("calculate_metrics", calculate_metrics(mcall.data))

CallCalculateRiskScore ==
    MCall("calculate_risk_score",
          [exc |-> "", high |-> GetCount(mcall.severity, "HIGH"),
           med |-> GetCount(mcall.severity, "MEDIUM"),
           low |-> GetCount(mcall.severity, "LOW"),
           risk_score |-> calculate_risk_score(mcall.severity)])

\* build_summary (security_tool.py 383-387): summarize_bandit, then the score
CallBuildSummary ==
    LET severity == summarize_bandit(mcall.data[1].issues)
    IN  MCall("build_summary",
              [exc |-> "", high |-> severity["HIGH"], med |-> severity["MEDIUM"],
               low |-> severity["LOW"], risk_score |-> calculate_risk_score(severity)])

MNext == CallCalculateMetrics \/ CallCalculateRiskScore \/ CallBuildSummary

SpecMetrics == MInit /\ [][MNext]_vars

(***************************************************************************)
(* Functions called on their own: the process runner and the Bandit        *)
(* adapter's own process handling                                          *)
(***************************************************************************)
\* the spawned process when analyze_python_path_with_bandit returns
\* (bandit_analyzer.py 96-117), as proc of _run_cmd
BanditProc(exists, p) ==
    IF ~exists \/ ~p.onpath \/ p.kind = "fnf" THEN "none"
    ELSE IF p.kind = "timeout" THEN "killed"
    ELSE "exited"

(***************************************************************************)
(* check_binaries (multi_analyzer.py 240-268).  The stdout of a version    *)
(* command is the sequence of its lines.                                   *)
(***************************************************************************)
\* lines 261-266 with the first line taken as it is
FirstVersionLine_unfiltered(lines) ==
    IF lines = <<>> THEN None ELSE Strip(Head(lines))

\* lines 261-266: the first line that is not blank, stripped, else None
RECURSIVE FirstVersionLine(_)
FirstVersionLine(lines) ==
    IF lines = <<>> THEN None
    ELSE IF Strip(Head(lines)) # "" THEN Strip(Head(lines))
    ELSE FirstVersionLine(Tail(lines))

\* lines 253-267: the entry of one tool; error is None when the entry has no
\* such key
BinaryInfo(name, p) ==
    IF ~p.onpath THEN [available |-> FALSE, version |-> None, error |-> None]
    ELSE LET r == _run_cmd(<<name, "--version">>, 10, p)
         IN  IF ~r.success
             THEN [available |-> FALSE, version |-> None, error |-> r.output]
             ELSE [available |-> TRUE, version |-> FirstVersionLine(r.output),
                   error |-> None]

KnownBinaries == {"bandit", "semgrep", "snyk", "eslint"}

\* procs: what the version command of each tool does
check_binaries(procs) == [name \in KnownBinaries |-> BinaryInfo(name, procs[name])]

VersionProcs ==
    {[onpath |-> FALSE, kind |-> "exit", rc |-> 0, stdout |-> <<>>, stderr |-> ""],
     [onpath |-> TRUE, kind |-> "timeout", rc |-> 0, stdout |-> <<"1.2.3">>, stderr |-> ""],
     [onpath |-> TRUE, kind |-> "fnf", rc |-> 0, stdout |-> <<>>, stderr |-> ""],
     [onpath |-> TRUE, kind |-> "exit", rc |-> 2, stdout |-> <<"1.2.3">>, stderr |-> "boom"],
     [onpath |-> TRUE, kind |-> "exit", rc |-> 0, stdout |-> <<"1.2.3">>, stderr |-> ""],
     [onpath |-> TRUE, kind |-> "exit", rc |-> 0, stdout |-> <<"", " ", " 1.2.3", "x">>,
      stderr |-> "boom"],
     [onpath |-> TRUE, kind |-> "exit", rc |-> 1, stdout |-> <<" ">>, stderr |-> ""]}

\* a run that had printed a document when its time was up
TimedOutMidway(tool) ==
    [onpath |-> TRUE, kind |-> "timeout", rc |-> 0, stdout |-> OutJson(Docs(tool)[1]),
     stderr |-> "boom"]

NoRun == Ran_cmd(FALSE, "<no call>", "", 0, "none")

FunctionCalls ==
    {[fn |-> "_run_cmd", cmd |-> c, timeout |-> t, p |-> p, called |-> FALSE, out |-> NoRun] :
        c \in {<<>>, SnykCmd, EslintCmd}, t \in {10, DEFAULT_TIMEOUT},
        p \in Procs("snyk") \cup {TimedOutMidway("snyk")}}
    \cup {[fn |-> "analyze_python_path_with_bandit", exists |-> e, p |-> p,
           called |-> FALSE, out |-> [exc |-> "", res |-> BanditFailure("<no call>"),
                                      proc |-> "none"]] :
            e \in BOOLEAN, p \in Procs("bandit") \cup {TimedOutMidway("bandit")}}
    \cup {[fn |-> "_normalize_and_validate_scanners", body |-> b, query |-> q,
           called |-> FALSE, out |-> Value(<<"<no call>">>)] :
            b \in {NoneSeq, <<"Bandit", " ", "semgrep">>} \cup NameLists \cup MixedLists,
            q \in {NoneSeq, <<"">>, <<" ">>, <<"semgrep">>, <<"foo">>, <<" Bandit", " ">>,
                   <<"eslint", "foo", " ", "Bandit", "x">>}}
    \cup {[fn |-> "parse_github_url", url |-> u, called |-> FALSE,
           out |-> Value(<<"<no call>">>)] :
            u \in Urls \cup {<<>>, <<"">>, <<"org", "repo">>, <<"org", "repo", "tree">>,
                             <<"org", "", "repo", "tree", "dev", "sub">>,
                             <<"", "org", "repo", "", "tree">>}}
    \cup {[fn |-> "check_binaries", procs |-> ps, called |-> FALSE,
           out |-> [name \in KnownBinaries |->
                       [available |-> FALSE, version |-> None, error |-> "<no call>"]]] :
            ps \in [KnownBinaries -> VersionProcs]}

\* every variable but mcall is idle
OthersIdle ==
    /\ acall = [tool |-> "none"]
    /\ code = <<>>
    /\ REVEAL_SECRETS = "0"
    /\ dcall = "none"
    /\ dres = NoResult
    /\ pc = "unused"
    /\ req = [endpoint |-> "none"]
    /\ host = [win |-> FALSE, force |-> FALSE]
    /\ io = <<>>
    /\ branch = None
    /\ total = 0
    /\ written = 0
    /\ archive = [ok |-> FALSE, infolist |-> <<>>]
    /\ fs = {}
    /\ repo_path = <<>>
    /\ sel = {}
    /\ pos = 1
    /\ scans = <<>>
    /\ timings = {}
    /\ resp = NoResp

FInit == mcall \in FunctionCalls /\ OthersIdle /\ LimiterIdle

CallRunCmd == MCall("_run_cmd", _run_cmd(mcall.cmd, mcall.timeout, mcall.p))

CallBandit ==
    LET out == analyze_python_path_with_bandit(mcall.exists, mcall.p)
    IN  MCall("analyze_python_path_with_bandit",
              [exc |-> out.exc, res |-> out.res, proc |-> BanditProc(mcall.exists, mcall.p)])

CallCheckBinaries == MCall("check_binaries", check_binaries(mcall.procs))

CallNormalize ==
    MCall("_normalize_and_validate_scanners",
          _normalize_and_validate_scanners(mcall.body, mcall.query))

CallParseGithubUrl == MCall("parse_github_url", parse_github_url(mcall.url))

FNext ==
    \/ CallRunCmd \/ CallBandit \/ CallCheckBinaries
    \/ CallNormalize \/ CallParseGithubUrl

SpecFunctions == FInit /\ [][FNext]_vars

(***************************************************************************)
(* The rate limiter: _ensure_rate and get_api_key (main.py 161-211)        *)
(***************************************************************************)
\* _RATE_LIMIT (RATE_LIMIT_PER_MIN), the 60 seconds of the window and the
\* 1000 keys above which stale keys are cleaned up, scaled down
_RATE_LIMIT == 2
RateWindow == 2
StaleKeysAbove == 2

\* the clock stops at MaxTime, the history at MaxCalls calls
MaxTime == 3
MaxCalls == 5

\* lines 175-176: while dq and dq[0] < window_start: dq.popleft()
RECURSIVE DropOld(_, _)
DropOld(dq, window_start) ==
    IF dq # <<>> /\ Head(dq) < window_start THEN DropOld(Tail(dq), window_start)
    ELSE dq

\* _ensure_rate(api_key) at time t on the state S: whether it raises the
\* HTTP 429 error, and the state it leaves.  dq is the deque the function
\* holds; it stays in S unless the cleanup of lines 181-184 pops its key.
_ensure_rate(S, api_key, t) ==
    LET dq == DropOld(IF api_key \in DOMAIN S THEN S[api_key] ELSE <<>>, t - RateWindow)
        fetched == [k \in DOMAIN S \cup {api_key} |-> IF k = api_key THEN dq ELSE S[k]]
        cleaned == IF Cardinality(DOMAIN fetched) > StaleKeysAbove
                   THEN [k \in {x \in DOMAIN fetched : fetched[x] # <<>>} |-> fetched[k]]
                   ELSE fetched
    IN  IF Len(dq) >= _RATE_LIMIT THEN [raised |-> TRUE, state |-> cleaned]
        ELSE [raised |-> FALSE,
              state |-> [k \in DOMAIN cleaned |->
                            IF k = api_key THEN Append(dq, t) ELSE cleaned[k]]]

LInit == mcall = [fn |-> "none"] /\ OthersIdle /\ LimiterIdle

\* get_api_key with no API_KEY configured: the key is the X-API-KEY header,
\* or "anon:" and the client address when there is none
get_api_key ==
    /\ Len(rate_log) < MaxCalls
    /\ \E x_api_key \in {None, "k1"}, client \in {"anon:a", "anon:b"} :
          LET key == IF x_api_key = None THEN client ELSE x_api_key
              r == _ensure_rate(_RATE_STATE, key, now)
          IN  /\ _RATE_STATE' = r.state
              /\ rate_log' = Append(rate_log, [key |-> key, at |-> now, ok |-> ~r.raised])
    /\ UNCHANGED <<dvars, rvars, acall, mcall, now>>

\* time passes
Tick ==
    /\ now < MaxTime
    /\ now' = now + 1
    /\ UNCHANGED <<dvars, rvars, acall, mcall, _RATE_STATE, rate_log>>

LNext == get_api_key \/ Tick

SpecLimiter == LInit /\ [][LNext]_vars

(***************************************************************************)
(* Properties                                                              *)
(***************************************************************************)
\* the scanner list of a request that counts: the query string when it is
\* given and not empty, else the body
EffectiveScanners(r) ==
    IF r.query # NoneSeq /\ r.query # <<"">> THEN r.query ELSE r.body

\* a list names a scanner outside the allow-list
NamesUnknown(names) ==
    /\ names # NoneSeq
    /\ \E i \in 1..Len(names) :
          Strip(names[i]) # "" /\ Lower(Strip(names[i])) \notin ALLOWED_SCANNERS

InvalidInput(r) ==
    \/ NamesUnknown(EffectiveScanners(r))
    \/ r.endpoint = "analyze_github" /\ parse_github_url(r.url).exc # ""

\* C1: on /analyze and /analyze-github, a request that names an unknown
\* scanner or carries a malformed URL is rejected before any HTTP request is
\* issued, any archive downloaded or any scanner run: such a request never
\* has an I/O event.
C1_ValidationBeforeIO ==
    (req.endpoint \in {"analyze", "analyze_github"} /\ InvalidInput(req))
        => io = <<>>

\* C2: on every entry point that takes an explicit scanner set, a name
\* outside the allow-list is a request-level error: a finished request that
\* named one ended with an error.
C2_UnknownScannerIsError ==
    (pc = "done" /\ req.endpoint # "none" /\ NamesUnknown(EffectiveScanners(req)))
        => resp.kind = "error"

\* C3: within one run_all_scans_on_path call, whatever the outcome of one
\* selected adapter, every other selected adapter is run and its result is
\* in the returned bundle: when the call is over, every block that was to
\* run has its entry in the results.
C3_FailuresIsolated ==
    (pc = "done" /\ req.endpoint \in {"analyze", "analyze_github",
                                      "run_all_scans_on_path"})
        => \A i \in 1..Len(ScanOrder) :
              BlockRuns(ScanOrder[i], sel, req.language)
                  => ScanOrder[i] \in DOMAIN scans

\* the standard output an adapter call parsed, NoStdout when it parsed none
NoStdout == [kind |-> "none", doc |-> JNull]

Completed(p) == p.onpath /\ p.kind = "exit" /\ p.rc \in {0, 1}

ParsedStdout(c) ==
    IF c.tool = "bandit"
    THEN IF c.exists /\ Completed(c.p1) THEN c.p1.stdout ELSE NoStdout
    ELSE IF c.tool = "semgrep"
    THEN IF SemgrepSuppressed(c.h) THEN NoStdout
         ELSE IF Completed(c.p1) THEN c.p1.stdout
         ELSE IF SemgrepFallsBack(c.h, c.p1) /\ Completed(c.p2) THEN c.p2.stdout
         ELSE NoStdout
    ELSE IF c.tool \in {"snyk", "eslint"}
    THEN IF Completed(c.p1) THEN c.p1.stdout ELSE NoStdout
    ELSE NoStdout

IsListOfDicts(d) == d.t = "list" /\ \A i \in 1..Len(d.v) : d.v[i].t = "dict"

\* the top-level shape an adapter expects of its tool's document
ExpectedShape(tool, d) ==
    IF tool = "eslint"
    THEN /\ IsListOfDicts(d)
         /\ \A i \in 1..Len(d.v) :
               "messages" \in DOMAIN d.v[i].v => IsListOfDicts(d.v[i].v["messages"])
    ELSE LET key == IF tool = "snyk" THEN "issues" ELSE "results"
         IN  /\ d.t = "dict"
             /\ key \in DOMAIN d.v => IsListOfDicts(d.v[key])

UnexpectedOutput(tool, out) ==
    \/ out.kind = "garbage"
    \/ out.kind = "json" /\ ~ExpectedShape(tool, out.doc)

\* C4: for every adapter, tool output that is not JSON, or JSON of another
\* shape than expected, yields a result with success=false and an error
\* message, and no exception leaves the adapter.
C4_MalformedOutputIsFailure ==
    (acall.tool # "none" /\ acall.called
        /\ UnexpectedOutput(acall.tool, ParsedStdout(acall)))
        => /\ acall.out.exc = ""
           /\ ~acall.out.res.success
           /\ acall.out.res.error # None

\* an entry name stays at or below the extraction root: it is relative and
\* no prefix of it has more ".." than names
RECURSIVE Depths(_, _)
Depths(name, d) ==
    IF name = <<>> THEN {d}
    ELSE {d} \cup Depths(Tail(name),
                         IF Head(name) = ".." THEN d - 1
                         ELSE IF Head(name) \in {"", "."} THEN d ELSE d + 1)

StaysBelowRoot(name) ==
    /\ ~(name # <<>> /\ Head(name) = "")
    /\ \A d \in Depths(name, 0) : d >= 0

SafeArchive(infolist) ==
    /\ SumSizes(infolist) <= MAX_EXTRACT_BYTES
    /\ \A i \in 1..Len(infolist) : StaysBelowRoot(infolist[i].filename)

\* the files below the extraction directory
Extracted(files) == {f \in files : IsPrefix(tmpdir, f) /\ f # tmpdir}

\* C5: download_repo_zip writes an archive entry to the extraction directory
\* only if the sizes of all entries sum to at most the extraction ceiling
\* and every entry's destination stays at or below the extraction root; an
\* archive that fails either check makes the operation fail with an error
\* and nothing is extracted.
C5_ExtractionAllOrNothing ==
    [][ /\ (Extracted(fs) = {} /\ Extracted(fs') # {})
            => (pc = "open" /\ archive.ok /\ SafeArchive(archive.infolist))
        /\ (pc = "open" /\ archive.ok /\ ~SafeArchive(archive.infolist))
            => (Extracted(fs') = {} /\ pc' = "done" /\ resp'.kind = "error") ]_vars

C5_Witness ==
    /\ pc = "done"
    /\ resp.detail = "Archive contient des chemins invalides"
    /\ written > 0
    /\ Extracted(fs) = {}

\* C6: the bytes written to the temporary archive never exceed the transfer
\* ceiling; once the bytes received exceed it the transfer is over with an
\* error and the chunk that crossed the ceiling was not written.
C6_TransferCeiling ==
    /\ written <= MAX_ZIP_BYTES
    /\ written <= total
    /\ total > MAX_ZIP_BYTES
          => (pc = "done" /\ resp.kind = "error" /\ resp.status = 413
              /\ written < total)

C6_Witness == total > MAX_ZIP_BYTES /\ written > 0 /\ pc = "done"

\* the temporary artifacts of a repository analysis
RepoArtifacts(files) == {f \in files : f = tmp_zip \/ IsPrefix(tmpdir, f)}

\* C7: the downloaded zip file and the extraction directory are removed on
\* every exit path: when /analyze-github is over, with a result or an
\* error, neither is left, and once download_repo_zip has returned the zip
\* file is gone.
C7_TemporaryArtifactsRemoved ==
    req.endpoint = "analyze_github"
        => /\ pc = "done" => RepoArtifacts(fs) = {}
           /\ pc \in {"validate", "scan"} => tmp_zip \notin fs

C7_Witness ==
    /\ req.endpoint = "analyze_github" /\ pc = "done"
    /\ resp.kind = "error" /\ resp.status = 500
    /\ \E i \in 1..Len(io) : io[i].kind = "scan"
    /\ fs = {}

ScannerEvents == {i \in 1..Len(io) : io[i].kind \in {"scan", "spawn"}}

ArchiveFailures ==
    {"Archive trop volumineuse (Content-Length)",
     "Archive trop volumineuse pendant le telechargement",
     "Archive contient trop de donnees extraites",
     "Archive contient des chemins invalides"}

FetchFailed ==
    \/ \E i \in 1..Len(io) : io[i].what = "GET zipball" /\ io[i].status >= 400
    \/ total > MAX_ZIP_BYTES
    \/ resp.detail \in ArchiveFailures

\* C8: an archive-level failure (a status from 400 on, a declared or a
\* streamed size above the transfer ceiling, the extraction ceiling, a path
\* traversal) ends the /analyze-github call with an error before any scanner
\* is executed.
C8_ArchiveFailureAbortsBeforeScan ==
    (req.endpoint = "analyze_github" /\ FetchFailed)
        => (ScannerEvents = {} /\ pc = "done" /\ resp.kind = "error")

C8_Witness ==
    /\ req.endpoint = "analyze_github" /\ pc = "done"
    /\ \E i \in 1..Len(io) : io[i].what = "GET zipball" /\ io[i].status = 500
    /\ ScannerEvents = {}

\* sub occurs in s
Contains(sub, s) ==
    \E k \in 0..(Len(s) - Len(sub)) : SubSeq(s, k + 1, k + Len(sub)) = sub

\* the masking rule on the string s and what _mask made of it
MaskedAsRuled(s, m) ==
    IF Len(s) <= 8
    THEN Len(m) = Len(s) /\ \A i \in 1..Len(m) : m[i] = "*"
    ELSE /\ Len(m) = 11
         /\ \A i \in 1..4 : m[i] = s[i] /\ m[7 + i] = s[Len(s) - 4 + i]
         /\ \A i \in 5..7 : m[i] = "."

Prefixes(text) == {SubSeq(text, 1, n) : n \in 1..Len(text)}

\* C9: with reveal mode off, a match of at most 8 characters is returned as
\* mask characters of the same length, a longer one as its first 4
\* characters, "..." and its last 4, and the raw value is in no field of the
\* result; the raw value is returned only when REVEAL_SECRETS is "1".
C9_SecretsMasked ==
    /\ dcall \in {"_scan_code_for_regex", "detect_code_string", "detect_path"}
          => /\ Len(dres.issues) <= Len(RawMatches(code))
             /\ \A j \in 1..Len(dres.issues) :
                   (dres.issues[j].type = "secret" /\ REVEAL_SECRETS # "1")
                       => LET raw == RawMatches(code)[j]
                          IN  /\ dres.issues[j].match_length = Len(raw)
                              /\ MaskedAsRuled(raw, dres.issues[j].match_masked)
    /\ dcall \in {"_scan_code_for_regex", "detect_code_string", "detect_path"}
          => \A j \in 1..Len(dres.issues), raw \in Range(RawMatches(code)) :
                Contains(raw, dres.issues[j].match_masked) => REVEAL_SECRETS = "1"
    /\ \A s \in Prefixes(code) :
          /\ REVEAL_SECRETS # "1" => MaskedAsRuled(s, _mask(s, REVEAL_SECRETS))
          /\ _mask(s, REVEAL_SECRETS) = s => REVEAL_SECRETS = "1"

C9_Witness ==
    /\ dcall = "detect_code_string" /\ REVEAL_SECRETS = "true"
    /\ code = SecretSnippet
    /\ Len(dres.issues) = 1
    /\ dres.issues[1].match_masked =
          <<"A", "K", "I", "A", ".", ".", ".", "M", "N", "O", "P">>

\* C10: the regex scan runs on the raw text whether or not it parses as
\* Python: detect_code_string, and detect_path on a file holding the text,
\* return a secret issue for every match of a secret pattern in the text.
C10_RegexScanIndependentOfParse ==
    dcall \in {"detect_code_string", "detect_path"}
        => \A k \in 1..Len(RawMatches(code)) :
              \E j \in 1..Len(dres.issues) :
                 /\ dres.issues[j].type = "secret"
                 /\ dres.issues[j].match_length = Len(RawMatches(code)[k])

\* the lines of the text that are a call written os.system(...)
OsSystemLines(text) ==
    LET lines == SplitAt(text, "\n")
    IN  {i \in 1..Len(lines) :
            /\ Len(lines[i]) > 10
            /\ SubSeq(lines[i], 1, 10) = <<"o", "s", ".", "s", "y", "s", "t", "e", "m", "(">>}

\* C11: for every call written os.system(...), "import os\nos.system('ls')"
\* among them, the detector returns an issue of type "os_system" with the
\* line number of the call.
C11_OsSystemFlagged ==
    dcall \in {"detect_code_string", "detect_path"}
        => \A n \in OsSystemLines(code) :
              \E j \in 1..Len(dres.issues) :
                 dres.issues[j].type = "os_system" /\ dres.issues[j].lineno = n

\* C12: every result an adapter returns (Bandit, Semgrep, Snyk, ESLint, the
\* CodeQL stub, the heuristic detector) with success=false has an empty
\* issues list and an error that is a non-empty string.
C12_FailureHasErrorAndNoIssues ==
    (acall.tool # "none" /\ acall.called /\ acall.out.exc = ""
        /\ ~acall.out.res.success)
        => /\ acall.out.res.issues = <<>>
           /\ acall.out.res.error \notin {None, ""}

C12_Witness ==
    /\ acall.tool = "snyk" /\ acall.called
    /\ acall.p1.onpath /\ acall.p1.kind = "exit" /\ acall.p1.rc = 2
    /\ acall.p1.stderr = " \n"
    /\ ~acall.out.res.success
    /\ acall.out.res.error = "Execution echouee"

CanonicalSeverities == {"HIGH", "MEDIUM", "LOW", "UNKNOWN"}

\* C13: every issue of a result returned by Semgrep, ESLint or Bandit carries
\* a severity that is one of HIGH, MEDIUM, LOW, UNKNOWN: the native value of
\* the tool is never passed through unchanged.
C13_SeverityCanonical ==
    (acall.tool \in {"semgrep", "eslint", "bandit"} /\ acall.called
        /\ acall.out.exc = "" /\ acall.out.res.success)
        => \A i \in 1..Len(acall.out.res.issues) :
              LET sev == acall.out.res.issues[i].severity
              IN  IF sev.t = "str" THEN sev.v \in CanonicalSeverities ELSE FALSE

\* The bucket the specification gives to a severity value: HIGH, MEDIUM, LOW,
\* or UNKNOWN for a value outside the supported spellings and for a missing one.
Bucket(sev) ==
    IF sev.t = "str" /\ Upper(sev.v) \in {"HIGH", "ERROR"} THEN "HIGH"
    ELSE IF sev.t = "str" /\ Upper(sev.v) \in {"MEDIUM", "WARNING"} THEN "MEDIUM"
    ELSE IF sev.t = "str" /\ Upper(sev.v) \in {"LOW", "INFO"} THEN "LOW"
    ELSE IF sev = JInt(2) THEN "HIGH"
    ELSE IF sev = JInt(1) THEN "MEDIUM"
    ELSE "UNKNOWN"

\* the issues of all the scanners of scanners_data, in order
RECURSIVE AllIssues(_)
AllIssues(data) ==
    IF data = <<>> THEN <<>> ELSE Head(data).issues \o AllIssues(Tail(data))

InBucket(data, b) ==
    Cardinality({i \in 1..Len(AllIssues(data)) : Bucket(AllIssues(data)[i]) = b})

MetricsReturned == mcall.fn = "calculate_metrics" /\ mcall.called

\* C14: when every issue given to calculate_metrics carries a supported
\* severity spelling (HIGH/MEDIUM/LOW, ERROR/WARNING/INFO in any letter case,
\* ESLint's 1 and 2), the call completes without an exception and each issue
\* is counted in exactly the bucket of its spelling: HIGH/ERROR/2 as HIGH,
\* MEDIUM/WARNING/1 as MEDIUM, LOW/INFO as LOW.
C14_SupportedSpellingsCounted ==
    (MetricsReturned /\ InBucket(mcall.data, "UNKNOWN") = 0)
        => /\ mcall.out.exc = ""
           /\ mcall.out.high = InBucket(mcall.data, "HIGH")
           /\ mcall.out.med = InBucket(mcall.data, "MEDIUM")
           /\ mcall.out.low = InBucket(mcall.data, "LOW")

\* C15: issues whose severity is outside the supported spellings, or absent,
\* add nothing to the HIGH, MEDIUM and LOW counts and nothing to the risk
\* score, whichever scanner they come from: calculate_metrics completes and
\* counts only the issues with a supported spelling.
C15_UnknownSeverityCountsNothing ==
    (MetricsReturned /\ InBucket(mcall.data, "UNKNOWN") = Len(AllIssues(mcall.data)))
        => /\ mcall.out.exc = ""
           /\ mcall.out.high = 0 /\ mcall.out.med = 0 /\ mcall.out.low = 0
           /\ mcall.out.risk_score = 0

\* C16: the risk score is 5*HIGH + 2*MEDIUM + 1*LOW.  calculate_risk_score
\* returns it for the counts it is given, a missing count being 0, and one
\* more HIGH, MEDIUM or LOW raises it by exactly 5, 2 or 1; build_summary
\* reports it for the counts of summarize_bandit; calculate_metrics returns
\* the same value as calculate_risk_score gives for the counts it returns.
C16_RiskScoreWeights ==
    /\ (mcall.fn \in {"calculate_risk_score", "build_summary"} /\ mcall.called)
          => /\ mcall.out.risk_score = 5 * mcall.out.high + 2 * mcall.out.med + mcall.out.low
             /\ \A key \in {"HIGH", "MEDIUM", "LOW"} :
                   LET severity == [k \in {"HIGH", "MEDIUM", "LOW"} |->
                                       CASE k = "HIGH" -> mcall.out.high
                                         [] k = "MEDIUM" -> mcall.out.med
                                         [] OTHER -> mcall.out.low]
                       more == [severity EXCEPT ![key] = @ + 1]
                   IN  calculate_risk_score(more) - mcall.out.risk_score
                          = (CASE key = "HIGH" -> 5 [] key = "MEDIUM" -> 2 [] OTHER -> 1)
    /\ (MetricsReturned /\ mcall.out.exc = "")
          => /\ mcall.out.risk_score = 5 * mcall.out.high + 2 * mcall.out.med + mcall.out.low
             /\ mcall.out.risk_score
                   = calculate_risk_score([HIGH |-> mcall.out.high, MEDIUM |-> mcall.out.med,
                                           LOW |-> mcall.out.low])

\* calculate_risk_score was given HIGH and LOW counts and no MEDIUM count
C16_Witness ==
    /\ mcall.fn = "calculate_risk_score" /\ mcall.called
    /\ DOMAIN mcall.severity = {"HIGH", "LOW"}
    /\ mcall.severity["HIGH"] = 2 /\ mcall.severity["LOW"] = 1
    /\ mcall.out.risk_score = 11


\* the scanners whose block has run
Ran == {io[i].what : i \in {j \in 1..Len(io) : io[j].kind = "scan"}}

\* the default set of a language on a host
DefaultScanners(language, h) ==
    LET byLanguage ==
            IF language = None THEN {"gemini_detector", "bandit", "semgrep"}
            ELSE IF language \in {"python", "Python", "PYTHON"}
            THEN {"gemini_detector", "bandit"}
            ELSE {"gemini_detector", "semgrep"}
    IN  IF h.win /\ ~h.force THEN byLanguage \ {"semgrep"} ELSE byLanguage

NoExplicitScanners == req.endpoint = "run_all_scans_on_path" /\ req.body \in {NoneSeq, <<>>}

\* C17: run_all_scans_on_path called with no explicit scanners (None or an
\* empty list) runs the default set of the language: detector and bandit for
\* python in any letter case, detector and semgrep for another language, all
\* three when the language is None, semgrep being left out on a Windows host
\* without FORCE_SEMGREP=1.  No other scanner ever runs, and a call that
\* returns has run every scanner of the set.
C17_DefaultSelection ==
    (NoExplicitScanners /\ pc # "start")
        => /\ sel = DefaultScanners(req.language, host)
           /\ Ran \subseteq DefaultScanners(req.language, host)
           /\ Ran \cap {"snyk", "eslint", "codeql"} = {}
           /\ (pc = "done" /\ resp.kind = "ok")
                 => /\ Ran = DefaultScanners(req.language, host)
                    /\ DOMAIN scans = DefaultScanners(req.language, host)

\* a call with no scanners and no language returned after running the three
C17_Witness ==
    /\ NoExplicitScanners /\ req.language = None /\ ~host.win
    /\ pc = "done" /\ resp.kind = "ok"
    /\ Ran = {"gemini_detector", "bandit", "semgrep"}


\* the request names semgrep among its scanners
SemgrepRequested ==
    /\ EffectiveScanners(req) # NoneSeq
    /\ \E i \in 1..Len(EffectiveScanners(req)) :
          Lower(Strip(EffectiveScanners(req)[i])) = "semgrep"

SemgrepSpawned ==
    \E i \in 1..Len(io) :
       io[i].kind = "spawn" /\ io[i].what \in {"semgrep", "python -m semgrep"}

Answered == pc = "done" /\ resp.kind = "ok"

\* C18: on a Windows host without FORCE_SEMGREP=1 no semgrep process is ever
\* started; when the request named semgrep, the answer holds a semgrep entry
\* with success false and an explanatory message; with FORCE_SEMGREP=1 a
\* requested semgrep is run.
C18_SuppressionDocumented ==
    /\ SemgrepSuppressed(host) => ~SemgrepSpawned
    /\ (SemgrepSuppressed(host) /\ SemgrepRequested /\ Answered)
          => /\ "semgrep" \in DOMAIN scans
             /\ ~scans["semgrep"].success
             /\ scans["semgrep"].error \notin {None, ""}
    /\ (host.win /\ host.force /\ SemgrepRequested /\ Answered) => "semgrep" \in Ran


\* the direct invocation of semgrep failed with a binary-not-found or an
\* encoding diagnostic
DirectDiagnostic ==
    LET r == _run_cmd(SemgrepCmd, DEFAULT_TIMEOUT, acall.p1)
    IN  /\ ~r.success
        /\ \E word \in {"commande introuvable", "not found", "charmap", "codec", "encoding"} :
              Mentions(r.output, word)

SemgrepReturned ==
    acall.tool = "semgrep" /\ acall.called /\ ~(acall.h.win /\ ~acall.h.force)

\* C19: in run_semgrep, when the direct `semgrep` invocation fails with an
\* encoding or binary-not-found diagnostic, `<python> -m semgrep` is invoked
\* exactly once after it; an error is returned only when that invocation
\* failed too, and when it succeeded its output is what is parsed as the
\* result.  Without such a diagnostic only `semgrep` is invoked.
C19_FallbackBeforeError ==
    SemgrepReturned
        => LET r2 == _run_cmd(SemgrepModuleCmd, DEFAULT_TIMEOUT, acall.p2)
               parsed == SemgrepParse(r2.output)
           IN  IF DirectDiagnostic
               THEN /\ acall.out.cmds = <<"semgrep", "python -m semgrep">>
                    /\ r2.success => /\ acall.out.exc = parsed.exc
                                     /\ acall.out.res = parsed.res
                    /\ ~r2.success => /\ acall.out.exc = ""
                                      /\ ~acall.out.res.success
                                      /\ acall.out.res.error \notin {None, ""}
               ELSE acall.out.cmds = <<"semgrep">>

\* semgrep was not on the path, the module runner found an issue
C19_Witness ==
    /\ SemgrepReturned /\ ~acall.p1.onpath
    /\ acall.out.cmds = <<"semgrep", "python -m semgrep">>
    /\ acall.out.exc = "" /\ acall.out.res.success
    /\ acall.out.res.issues # <<>>


SemgrepTimedOut ==
    "semgrep" \in DOMAIN scans /\ scans["semgrep"].error = "Execution timeout"

\* C20: an adapter that runs until its timeout does not delay the others of
\* the same call.  While the semgrep block has yet to end, the result of the
\* heuristic detector can be produced and that of Bandit does not wait for
\* it; and after a timeout of semgrep every other selected scanner of the
\* handler still gives its result.
C20_TimeoutDoesNotDelayOthers ==
    /\ (AtBlock("semgrep") /\ "gemini_detector" \in sel) => ENABLED ScanDetector
    /\ (AtBlock("semgrep") /\ BlockRuns("bandit", sel, req.language))
          => "bandit" \in DOMAIN scans
    /\ (Answered /\ SemgrepTimedOut)
          => \A i \in 1..Len(Order) :
                BlockRuns(Order[i], sel, req.language) => Order[i] \in DOMAIN scans


RunnerReturned == mcall.fn = "_run_cmd" /\ mcall.called

BanditReturned == mcall.fn = "analyze_python_path_with_bandit" /\ mcall.called

\* C21: _run_cmd looks for the executable before spawning.  For an empty
\* command or an executable that is not on the search path nothing is
\* spawned and the call fails with a not-found diagnostic that names the
\* command; a failed execution and a timeout never give that diagnostic.  The
\* Bandit adapter, when bandit is not on the path, returns success false with
\* its "not installed" error, raises nothing and spawns nothing.
C21_NotFoundBeforeSpawn ==
    /\ (RunnerReturned /\ mcall.cmd = <<>>)
          => /\ ~mcall.out.success /\ mcall.out.proc = "none"
             /\ mcall.out.output = "Commande vide"
    /\ (RunnerReturned /\ mcall.cmd # <<>> /\ ~mcall.p.onpath)
          => /\ ~mcall.out.success /\ mcall.out.proc = "none"
             /\ mcall.out.output = "Commande introuvable"
             /\ mcall.out.names = mcall.cmd[1]
    /\ (RunnerReturned /\ mcall.out.proc # "none" /\ ~mcall.out.success)
          => mcall.out.output \notin {"Commande introuvable", "Commande vide"}
    /\ (BanditReturned /\ mcall.exists /\ ~mcall.p.onpath)
          => /\ mcall.out.exc = "" /\ ~mcall.out.res.success
             /\ mcall.out.res.error = "Bandit n'est pas installe."
             /\ mcall.out.proc = "none"

\* `snyk code test --json` was run where snyk is not installed
C21_Witness ==
    /\ RunnerReturned /\ mcall.cmd = SnykCmd /\ ~mcall.p.onpath
    /\ mcall.out.output = "Commande introuvable" /\ mcall.out.names = "snyk"


TimedOut == mcall.p.onpath /\ mcall.p.kind = "timeout"

\* C22: when the process exceeds the timeout, _run_cmd returns failure with
\* the timeout diagnostic, formatted with the duration and the command, and
\* nothing of what the process printed; the process has been killed when the
\* call returns, and no call ever returns with its process still running.
\* The Bandit adapter likewise returns its timeout error, no issue, and has
\* killed the process.
C22_TimeoutTerminatesProcess ==
    /\ (RunnerReturned /\ mcall.cmd # <<>> /\ TimedOut)
          => /\ ~mcall.out.success
             /\ mcall.out.output = "Execution timeout"
             /\ mcall.out.secs = mcall.timeout
             /\ mcall.out.names = mcall.cmd[1]
             /\ mcall.out.proc = "killed"
    /\ RunnerReturned => mcall.out.proc \in {"none", "exited", "killed"}
    /\ (BanditReturned /\ mcall.exists /\ TimedOut)
          => /\ mcall.out.exc = "" /\ ~mcall.out.res.success
             /\ mcall.out.res.error = "Bandit timeout"
             /\ mcall.out.res.issues = <<>>
             /\ mcall.out.proc = "killed"
    /\ BanditReturned => mcall.out.proc \in {"none", "exited", "killed"}

\* eslint had printed a document when its 10 seconds were up
C22_Witness ==
    /\ RunnerReturned /\ mcall.cmd = EslintCmd /\ mcall.timeout = 10
    /\ mcall.p = TimedOutMidway("snyk")
    /\ mcall.out.output = "Execution timeout" /\ mcall.out.proc = "killed"

\* C23: for a process that ran to completion, _run_cmd returns success with
\* the stdout of the process exactly when the exit code is 0 or 1; with
\* another exit code it fails and its diagnostic is the stripped stderr, or
\* the fixed message "Execution echouee" when stderr is blank.  The Bandit
\* adapter does the same with its own fixed message, and a run with another
\* exit code gives no issue whatever its stdout holds.
C23_ExitCodeDecides ==
    /\ (RunnerReturned /\ mcall.cmd # <<>> /\ mcall.p.onpath /\ mcall.p.kind = "exit")
          => IF mcall.p.rc \in {0, 1}
             THEN mcall.out.success /\ mcall.out.output = mcall.p.stdout
             ELSE /\ ~mcall.out.success
                  /\ mcall.out.output =
                        (IF mcall.p.stderr \in {"", " \n"} THEN "Execution echouee"
                         ELSE mcall.p.stderr)
    /\ (BanditReturned /\ mcall.exists /\ mcall.p.onpath /\ mcall.p.kind = "exit"
          /\ mcall.p.rc \notin {0, 1})
          => /\ mcall.out.exc = "" /\ ~mcall.out.res.success
             /\ mcall.out.res.issues = <<>>
             /\ mcall.out.res.error =
                   (IF mcall.p.stderr \in {"", " \n"} THEN "Execution Bandit echouee."
                    ELSE mcall.p.stderr)

\* bandit exited with code 2, a document with a result on its stdout and
\* nothing on its stderr
C23_Witness ==
    /\ BanditReturned /\ mcall.exists /\ mcall.p.onpath /\ mcall.p.kind = "exit"
    /\ mcall.p.rc = 2 /\ mcall.p.stdout = OutJson(Docs("bandit")[1]) /\ mcall.p.stderr = ""
    /\ mcall.out.res.error = "Execution Bandit echouee." /\ mcall.out.res.issues = <<>>


\* C24: an answered /analyze request has run the heuristic detector twice,
\* whatever scanners it selected: on the file the snippet was written to
\* (entry gemini_detector) and on the submitted text (entry
\* gemini_detector_snippet).
C24_DetectorRunsTwice ==
    (req.endpoint = "analyze" /\ Answered)
        => /\ {"gemini_detector", "gemini_detector_snippet"} \subseteq Ran
           /\ {"gemini_detector", "gemini_detector_snippet"} \subseteq DOMAIN scans


\* the issue types of the findings proper
FindingTypes == {"secret", "dynamic_exec", "subprocess_call", "os_system", "http_client"}

\* C25: when the code cannot be parsed into a syntax tree,
\* detect_code_string and detect_path on a readable file still return, and
\* their issue list holds exactly one issue that reports the parse failure.
C25_ParseFailureIsOneIssue ==
    (dcall \in {"detect_code_string", "detect_path"} /\ ~ast_parse_ok(code))
        => Cardinality({j \in 1..Len(dres.issues) :
                           dres.issues[j].type \notin FindingTypes}) = 1


\* C26: check_binaries returns an entry for each of bandit, semgrep, snyk
\* and eslint, whatever the tools do.  The entry of a tool depends on that
\* tool alone: available false and version null when its executable is
\* absent or its version command fails or times out; else available true,
\* the version being the first line of the output that is not blank (null
\* when every line is blank).
C26_BinariesReported ==
    (mcall.fn = "check_binaries" /\ mcall.called)
        => /\ DOMAIN mcall.out = {"bandit", "semgrep", "snyk", "eslint"}
           /\ \A name \in DOMAIN mcall.out :
                 LET p == mcall.procs[name]
                     info == mcall.out[name]
                     lines == p.stdout
                     blank(i) == lines[i] \in {"", " "}
                 IN  IF ~p.onpath \/ p.kind \in {"timeout", "fnf"} \/ p.rc \notin {0, 1}
                     THEN ~info.available /\ info.version = None
                     ELSE /\ info.available
                          /\ IF \A i \in 1..Len(lines) : blank(i)
                             THEN info.version = None
                             ELSE \E i \in 1..Len(lines) :
                                     /\ ~blank(i)
                                     /\ \A j \in 1..(i - 1) : blank(j)
                                     /\ info.version = Strip(lines[i])

\* bandit is absent, semgrep times out, snyk fails, and eslint prints blank
\* lines before its version
C26_Witness ==
    /\ mcall.fn = "check_binaries" /\ mcall.called
    /\ ~mcall.procs["bandit"].onpath
    /\ mcall.procs["semgrep"].kind = "timeout"
    /\ mcall.procs["snyk"].rc = 2
    /\ mcall.procs["eslint"].stdout = <<"", " ", " 1.2.3", "x">>
    /\ ~mcall.out["bandit"].available /\ ~mcall.out["semgrep"].available
    /\ mcall.out["snyk"].error = "boom"
    /\ mcall.out["eslint"].available /\ mcall.out["eslint"].version = "1.2.3"


\* C27: _normalize_and_validate_scanners reads the query value when it is
\* given and not empty, and the body list otherwise; it drops the blank
\* names of that source and returns the others trimmed and lowercased in
\* their order, the empty list when none is left; when one of them is
\* outside the allow-list it raises an HTTP 400 error that lists the
\* offending names.
C27_ScannersNormalized ==
    (mcall.fn = "_normalize_and_validate_scanners" /\ mcall.called)
        => LET source == IF mcall.query \notin {NoneSeq, <<"">>} THEN mcall.query
                         ELSE IF mcall.body = NoneSeq THEN <<>>
                         ELSE mcall.body
               kept == SelectSeq(source, LAMBDA x : Strip(x) # "")
               names == [i \in 1..Len(kept) |-> Lower(Strip(kept[i]))]
               offending == SelectSeq(names, LAMBDA x : x \notin ALLOWED_SCANNERS)
           IN  IF offending = <<>>
               THEN mcall.out.exc = "" /\ mcall.out.val = names
               ELSE /\ mcall.out.exc = "HTTPException" /\ mcall.out.status = 400
                    /\ mcall.out.val = offending

\* the query names eslint and bandit in mixed case; the body names an
\* unknown scanner and is not read
C27_Witness ==
    /\ mcall.fn = "_normalize_and_validate_scanners" /\ mcall.called
    /\ mcall.query = <<" Bandit", " ">> /\ mcall.body = <<"foo">>
    /\ mcall.out.exc = "" /\ mcall.out.val = <<"bandit">>

\* C28: parse_github_url returns as owner and repo the first two non-empty
\* segments of the URL path, and as branch the fourth one exactly when
\* there are at least four and the third is "tree", None otherwise; with
\* fewer than two non-empty segments it raises an HTTP 400 error.
C28_GithubUrlParsed ==
    (mcall.fn = "parse_github_url" /\ mcall.called)
        => LET at == {i \in 1..Len(mcall.url) : mcall.url[i] # ""}
               nth(n) == CHOOSE i \in at : Cardinality({j \in at : j <= i}) = n
               segment(n) == mcall.url[nth(n)]
           IN  IF Cardinality(at) < 2
               THEN mcall.out.exc = "HTTPException" /\ mcall.out.status = 400
               ELSE /\ mcall.out.exc = ""
                    /\ mcall.out.val.owner = segment(1)
                    /\ mcall.out.val.repo = segment(2)
                    /\ IF Cardinality(at) >= 4 /\ segment(3) = "tree"
                       THEN mcall.out.val.branch = segment(4)
                       ELSE mcall.out.val.branch = None

\* a URL with an empty segment and a path below the branch
C28_Witness ==
    /\ mcall.fn = "parse_github_url" /\ mcall.called
    /\ mcall.url = <<"org", "", "repo", "tree", "dev", "sub">>
    /\ mcall.out.val = [owner |-> "org", repo |-> "repo", branch |-> "dev"]


\* the admitted calls of a key at the times of T, among the first n calls
AdmittedIn(key, T, n) ==
    {j \in 1..n : rate_log[j].key = key /\ rate_log[j].ok /\ rate_log[j].at \in T}

\* how many times the state holds the timestamp t for a key
Held(key, t) ==
    IF key \notin DOMAIN _RATE_STATE THEN 0
    ELSE Cardinality({i \in 1..Len(_RATE_STATE[key]) : _RATE_STATE[key][i] = t})

RateKeys == {rate_log[i].key : i \in 1..Len(rate_log)}

\* C29: for every key, any window of 60 seconds holds at most
\* RATE_LIMIT_PER_MIN admitted requests of that key.  A request is rejected
\* exactly when its key already has that many admitted requests no older
\* than 60 seconds, whatever the other keys did; a rejected request records
\* no timestamp; and every admitted timestamp younger than 60 seconds is
\* still recorded.
C29_RateLimitPerKey ==
    /\ \A key \in RateKeys : \A t \in 0..MaxTime :
          Cardinality(AdmittedIn(key, t..(t + RateWindow), Len(rate_log))) <= _RATE_LIMIT
    /\ \A i \in 1..Len(rate_log) :
          ~rate_log[i].ok <=>
             Cardinality(AdmittedIn(rate_log[i].key,
                                    (rate_log[i].at - RateWindow)..rate_log[i].at,
                                    i - 1)) >= _RATE_LIMIT
    /\ \A key \in RateKeys : \A t \in 0..MaxTime :
          Held(key, t) <= Cardinality(AdmittedIn(key, {t}, Len(rate_log)))
    /\ \A key \in RateKeys : \A t \in 0..MaxTime :
          t >= now - RateWindow
             => Held(key, t) = Cardinality(AdmittedIn(key, {t}, Len(rate_log)))


\* C30: when run_all_scans_on_path has returned, the scanners with a result
\* are the scanners with a timing, and both are the scanners of the
\* resolved selection, each run once: every selected scanner has a result
\* and a timing, bandit selected for a language other than Python included,
\* and no other scanner has either.
C30_ResultsTimingsSelection ==
    (req.endpoint = "run_all_scans_on_path" /\ Answered)
        => /\ DOMAIN scans = timings
           /\ timings = sel
           /\ \A s \in sel :
                 Cardinality({i \in 1..Len(io) : io[i].kind = "scan" /\ io[i].what = s}) = 1


====
